---- MODULE Spec2Model ----
(***************************************************************************)
(* Model of novadocker/virt/docker/driver.py (DockerDriver).               *)
(*                                                                         *)
(* The driver holds no state of its own: every call re-derives the         *)
(* container from the engine by name.  The state of the model is therefore *)
(* the state of the collaborators the driver acts on (the container        *)
(* engine, the host file system, the network namespaces and the VIFs) plus *)
(* the record of the last driver call: which engine / host calls it made,  *)
(* in which order, and the exception it ended with.                        *)
(*                                                                         *)
(* Every driver method is an operator from a world record to a world       *)
(* record.  An exception in flight is the field exc of the world: a step   *)
(* applied to a world whose exc is set does nothing, which is how the      *)
(* statements after a raise are skipped.                                   *)
(***************************************************************************)
EXTENDS Integers, Sequences, FiniteSets, TLC

(***************************************************************************)
(* Bounds of the model.                                                    *)
(***************************************************************************)
\* the largest vcpu count of a flavor
MaxVcpus == 2
\* the largest root_gb / ephemeral_gb of a flavor
MaxGb == 1
\* the largest number of VIFs in network_info
MaxVifs == 2

(***************************************************************************)
(* Strings the code takes apart or puts together are sequences of pieces.  *)
(***************************************************************************)
Range(s) == {s[i] : i \in 1..Len(s)}

\* s[1:] of Python
StripFirst(s) == IF s = <<>> THEN <<>> ELSE Tail(s)

\* the engine's name filter: sub occurs in s
Contains(s, sub) ==
    \E i \in 0..(Len(s) - Len(sub)) : SubSeq(s, i + 1, i + Len(sub)) = sub

\* Python None and a value that may be None: the empty sequence and a
\* sequence of one element; `not x` of the values the driver tests
None == <<>>
Some(v) == <<v>>
Falsy(x) == x = None

\* CONF.docker.dir_volume_path, CONF.docker.snapshots_directory
dir_volume_path == <<"/os_docker_volume">>
snapshots_directory == <<"/snapshots">>

\* the one instance the compute manager drives, and a foreign container
\* whose name has the instance name as a prefix
InstanceName == <<"v", "m">>
ForeignName == <<"v", "m", "2">>

TheVifs == <<"vif1", "vif2", "vif3">>
NetInfos == {SubSeq(TheVifs, 1, n) : n \in 0..MaxVifs}
VifIp(vif) == <<"ip-of-", vif>>

Roles == {"log_volume", "data_volume", "other_volume"}
\* the in-container mount point an image declares for a role
MountPoint(role) == <<"/mnt/", role>>
\* image_meta['properties'] of an image that declares the roles in declared
Properties(declared) == [r \in declared |-> MountPoint(r)]
ImageMeta(fmt, d, type) ==
    [name |-> <<"img">>, id |-> <<"0123abcd", "-", "ef01", "-rest">>,
     container_format |-> fmt,
     properties |-> IF type = None THEN Properties(d)
                    ELSE [k \in d \cup {"docker_image_type"} |->
                            IF k \in d THEN MountPoint(k) ELSE type]]
\* the images spawn is called with: every set of declared roles, an image
\* that names an image id, and an image of another container format
ImageMetas ==
    {ImageMeta("docker", d, None) : d \in SUBSET Roles}
        \cup {ImageMeta("docker", {}, <<"image">>), ImageMeta("ovf", {}, None)}
\* an image without volumes and one that declares every role
PlainImage == ImageMeta("docker", {}, None)
FullImage == ImageMeta("docker", Roles, None)

CpuModes == {"cpushare", "cpuset", "mix"}
\* the disk sizes of an instance and of the flavor it migrates to
DiskSizes == [root_gb : 0..MaxGb, ephemeral_gb : 0..MaxGb]

(***************************************************************************)
(* Exceptions.                                                             *)
(***************************************************************************)
\* status is e.response.status_code of an engine error, 0 of any other one
NoExc == [type |-> "none", msg |-> <<>>, instance_id |-> None, status |-> 0]
Exc(type, msg, inst) == [type |-> type, msg |-> msg, instance_id |-> inst, status |-> 0]
APIErrorOf(status, msg) ==
    [type |-> "APIError", msg |-> msg, instance_id |-> None, status |-> status]
APIError(msg) == APIErrorOf(500, msg)
Raised(w) == w.exc.type # "none"
\* a call that is in time.sleep: its frames are left as by an exception, which
\* no except clause catches, and are entered again when the call wakes up
Sleeping == [type |-> "asleep", msg |-> <<>>, instance_id |-> None, status |-> 0]
Asleep(w) == w.exc = Sleeping
Raise(w, e) == [w EXCEPT !.exc = e]
Log(w, call, arg) == [w EXCEPT !.calls = Append(@, [call |-> call, arg |-> arg])]

UnpauseMarker == "Unpause the container before stopping"

(***************************************************************************)
(* The container engine (docker daemon behind novadocker.virt.docker       *)
(* .client): containers are records, the set of containers is the engine's *)
(* state.  A call named in F fails with an engine error and changes        *)
(* nothing.                                                                *)
(***************************************************************************)
IdOf(name) == <<"id-">> \o name

\* the host configuration of a container that was never started
NoHostConfig == [cpu_shares |-> None, volumes_from |-> None,
                 network_mode |-> None, privileged |-> FALSE]

\* the host directory of a bind "<host-dir>:<container-path>"
RECURSIVE HostOfBind(_)
HostOfBind(b) ==
    IF b = <<>> \/ Head(b) = ":" THEN <<>> ELSE <<Head(b)>> \o HostOfBind(Tail(b))

ByRef(w, ref) ==
    {c \in w.containers : c.Id = ref \/ StripFirst(c.Names[1]) = ref}

SetState(w, ref, st) ==
    [w EXCEPT !.containers =
        {IF c \in ByRef(w, ref) THEN [c EXCEPT !.State = st] ELSE c : c \in @}]

StateOf(w, ref) == (CHOOSE c \in ByRef(w, ref) : TRUE).State

NoSuch(ref) == APIErrorOf(404, <<"No such container: ">> \o ref)

\* a call the engine answers with an error: the world with the error raised
\* when F names the call (status 500) or its 404 answer, the world otherwise
Answered(w, F, call, call404) ==
    IF call \in F THEN Raise(w, APIError(<<call, " failed">>))
    ELSE IF call404 \in F THEN Raise(w, APIErrorOf(404, <<call, " failed">>))
    ELSE w

\* docker.containers(all=True, filters={'name': name}): the world and the list
docker_containers(w, F, name) ==
    LET w1 == Answered(w, F, "containers", "containers404") IN
    [w |-> w1,
     ret |-> IF Raised(w1) THEN {}
             ELSE {c \in w.containers : Contains(c.Names[1], name)}]

\* docker.containers(all=True)
docker_containers_all(w, F) ==
    LET w1 == Answered(w, F, "containers", "containers404") IN
    [w |-> w1, ret |-> IF Raised(w1) THEN {} ELSE w.containers]

\* docker.inspect_container(id): the world and the container, None when the
\* engine has none of that id
docker_inspect_container(w, F, id) ==
    LET w1 == Answered(w, F, "inspect_container", "inspect_container404") IN
    [w |-> w1,
     ret |-> IF Raised(w1) \/ ByRef(w, id) = {} THEN None
             ELSE CHOOSE c \in ByRef(w, id) : TRUE]

docker_create_container(w, F, pt, ptNone, name, cfg) ==
    IF Raised(w) THEN [w |-> w, id |-> None]
    ELSE LET w1 == Log(w, "create_container", name) IN
         IF pt \in F THEN [w |-> Raise(w1, APIError(<<"create failed">>)), id |-> None]
         ELSE IF ptNone \in F THEN [w |-> w1, id |-> None]
         ELSE IF ByRef(w, name) # {}
              THEN [w |-> Raise(w1, APIError(<<"Conflict. The name is already in use: ">> \o name)),
                    id |-> None]
         ELSE [w |-> [w1 EXCEPT
                       !.containers = @ \cup
                          {[Names |-> << <<"/">> \o name >>, Id |-> IdOf(name),
                            State |-> "created", Config |-> cfg,
                            HostConfig |-> NoHostConfig]},
                       !.host_dirs = @ \cup {HostOfBind(b) : b \in Range(cfg.binds)}],
               id |-> IdOf(name)]

docker_update_start(w, F, id, host_config) ==
    IF Raised(w) THEN w
    ELSE LET w1 == Log(w, "start", id) IN
         IF "start" \in F THEN Raise(w1, APIError(<<"start failed">>))
         ELSE IF ByRef(w, id) = {} THEN Raise(w1, NoSuch(id))
         ELSE IF StateOf(w, id) = "paused"
              THEN Raise(w1, APIError(<<"Cannot start a paused container, try unpause instead">>))
         ELSE [w1 EXCEPT !.containers =
                 {IF c \in ByRef(w, id)
                  THEN [c EXCEPT !.State = "running", !.HostConfig = host_config]
                  ELSE c : c \in @}]

docker_stop(w, F, pt, id) ==
    IF Raised(w) THEN w
    ELSE LET w1 == Log(w, "stop", id) IN
         IF pt \in F THEN Raise(w1, APIError(<<"stop failed">>))
         ELSE IF ByRef(w, id) = {} THEN Raise(w1, NoSuch(id))
         ELSE IF StateOf(w, id) = "paused"
              THEN Raise(w1, APIError(<<"Container is paused. ", UnpauseMarker>>))
         ELSE IF StateOf(w, id) = "running" THEN SetState(w1, id, "exited")
         ELSE w1

docker_kill(w, F, id) ==
    IF Raised(w) THEN w
    ELSE LET w1 == Log(w, "kill", id) IN
         IF "kill" \in F THEN Raise(w1, APIError(<<"kill failed">>))
         ELSE IF ByRef(w, id) = {} THEN Raise(w1, NoSuch(id))
         ELSE IF StateOf(w, id) \in {"running", "paused"} THEN SetState(w1, id, "exited")
         ELSE Raise(w1, APIError(<<"Container is not running">>))

docker_pause(w, F, id) ==
    IF Raised(w) THEN w
    ELSE LET w1 == Log(w, "pause", id) IN
         IF "pause" \in F THEN Raise(w1, APIError(<<"pause failed">>))
         ELSE IF ByRef(w, id) = {} THEN Raise(w1, NoSuch(id))
         ELSE IF StateOf(w, id) = "running" THEN SetState(w1, id, "paused")
         ELSE Raise(w1, APIError(<<"Container is not running">>))

docker_unpause(w, F, id) ==
    IF Raised(w) THEN w
    ELSE LET w1 == Log(w, "unpause", id) IN
         IF "unpause" \in F THEN Raise(w1, APIError(<<"unpause failed">>))
         ELSE IF ByRef(w, id) = {} THEN Raise(w1, NoSuch(id))
         ELSE IF StateOf(w, id) = "paused" THEN SetState(w1, id, "running")
         ELSE Raise(w1, APIError(<<"Container is not paused">>))

docker_remove_container(w, F, pt, ref) ==
    IF Raised(w) THEN w
    ELSE LET w1 == Log(w, "remove_container", ref) IN
         IF pt \in F THEN Raise(w1, APIError(<<"remove failed">>))
         ELSE IF ByRef(w, ref) = {} THEN Raise(w1, NoSuch(ref))
         ELSE [w1 EXCEPT !.containers = @ \ ByRef(w, ref)]

(***************************************************************************)
(* The VIF collaborator (CONF.docker.vif_driver) and the host commands of  *)
(* the network attachment.                                                 *)
(***************************************************************************)
PlugPt(i) == <<"plug@1", "plug@2", "plug@3", "plug@4">>[i]
AttachPt(i) == <<"attach@1", "attach@2", "attach@3", "attach@4">>[i]

vif_plug(w, F, i, vif) ==
    IF Raised(w) THEN w
    ELSE LET w1 == Log(w, "plug", <<vif>>) IN
         IF PlugPt(i) \in F THEN Raise(w1, Exc("VifError", <<"plug failed">>, None))
         ELSE [w1 EXCEPT !.plugged = @ \cup {vif}]

vif_unplug(w, F, vif) ==
    IF Raised(w) THEN w
    ELSE LET w1 == Log(w, "unplug", <<vif>>) IN
         IF "unplug" \in F THEN Raise(w1, Exc("VifError", <<"unplug failed">>, None))
         ELSE [w1 EXCEPT !.plugged = @ \ {vif}, !.attached = @ \ {vif}]

vif_attach(w, F, i, vif, container_id) ==
    IF Raised(w) THEN w
    ELSE LET w1 == Log(w, "attach", <<vif>>) IN
         IF AttachPt(i) \in F THEN Raise(w1, Exc("VifError", <<"attach failed">>, None))
         ELSE [w1 EXCEPT !.attached = @ \cup {vif}]

\* utils.execute(...): a host command, which fails when the environment says so
execute(w, F, pt, cmd, arg) ==
    IF Raised(w) THEN w
    ELSE LET w1 == Log(w, cmd, arg) IN
         IF pt \in F THEN Raise(w1, Exc("ProcessExecutionError", <<cmd, " failed">>, None))
         ELSE w1

\* network.teardown_network(container_id): deletes the namespace when listed
teardown_network(w, F, container_id) ==
    IF Raised(w) THEN w
    ELSE LET w1 == Log(w, "teardown_network", container_id) IN
         IF "teardown" \in F
         THEN Raise(w1, Exc("ProcessExecutionError", <<"teardown failed">>, None))
         ELSE [w1 EXCEPT !.netns = @ \ {container_id}, !.lo_up = @ \ {container_id}]

(***************************************************************************)
(* DockerDriver: identity.                                                 *)
(***************************************************************************)
\* the first ct of the engine's answer whose stripped name is name
\* C23, mutant: the first answer of the engine's filter is taken as it is
_find_container_by_name_first_hit(w, F, name) ==
    LET l == docker_containers(w, F, name)
        hits == {ct \in l.ret : ct # None}
        r == IF Raised(l.w) \/ hits = {} THEN [w |-> l.w, ret |-> None]
             ELSE docker_inspect_container(w, F, (CHOOSE ct \in hits : TRUE).Id)
    IN IF Raised(r.w) /\ r.w.exc.type = "APIError" /\ r.w.exc.status = 404
       THEN [w |-> w, ret |-> None]
       ELSE r

\* the result is the world, with the engine's error raised unless its status
\* is 404, and the container found, None for the {} of the code
_find_container_by_name(w, F, name) ==
    LET l == docker_containers(w, F, name)
        hits == {ct \in l.ret : ct # None /\ StripFirst(ct.Names[1]) = name}
        r == IF Raised(l.w) \/ hits = {} THEN [w |-> l.w, ret |-> None]
             ELSE docker_inspect_container(w, F, (CHOOSE ct \in hits : TRUE).Id)
    IN IF Raised(r.w) /\ r.w.exc.type = "APIError" /\ r.w.exc.status = 404
       THEN [w |-> w, ret |-> None]
       ELSE r

_get_container_id(w, F, inst) ==
    LET c == _find_container_by_name(w, F, inst.name)
    IN [w |-> c.w, ret |-> IF c.ret = None THEN None ELSE c.ret.Id]

\* no try statement: an error of the engine's answer is raised
_exist_container(w, F, container_name) ==
    LET l == docker_containers_all(w, F) IN
    [w |-> l.w,
     ret |-> \E container \in l.ret :
                 StripFirst(container.Names[1]) = container_name]

(***************************************************************************)
(* DockerDriver: VIFs and network attachment.                              *)
(***************************************************************************)
RECURSIVE plug_from(_, _, _, _)
plug_from(w, F, network_info, i) ==
    IF i > Len(network_info) THEN w
    ELSE plug_from(vif_plug(w, F, i, network_info[i]), F, network_info, i + 1)

plug_vifs(w, F, inst, network_info) == plug_from(w, F, network_info, 1)

RECURSIVE unplug_from(_, _, _, _)
unplug_from(w, F, network_info, i) ==
    IF i > Len(network_info) THEN w
    ELSE unplug_from(vif_unplug(w, F, network_info[i]), F, network_info, i + 1)

unplug_vifs(w, F, inst, network_info) == unplug_from(w, F, network_info, 1)

\* the number of inspections of a call that answer Pid = 0 before the
\* process is seen
PollCap == 15
PidDelay(w) == w.pid_delay

\* time.sleep(1); n += 1: the call gives way to the other callers of the
\* driver; its frame keeps the locals it goes on with
sleep(w, F, container_id, n) ==
    [w EXCEPT !.sleeps = @ + 1, !.exc = Sleeping,
              !.frame = Some([n |-> n + 1, container_id |-> container_id, F |-> F])]

\* the loop of _find_container_pid from iteration n on, as far as its next
\* sleep: the result is the world (inspections and sleeps counted) and the
\* pid, None when the loop has given up or the call is asleep
pid_loop(w, F, container_id, n) ==
    IF n > PollCap THEN [w |-> w, pid |-> None]
    ELSE LET w1 == Log([w EXCEPT !.inspects = @ + 1], "inspect_container", container_id)
             i == docker_inspect_container(w1, F, container_id)
             info == i.ret
             pid == IF n >= PidDelay(w) THEN <<"pid-">> \o container_id ELSE None
         IN IF Raised(i.w) THEN [w |-> i.w, pid |-> None]
            ELSE IF info # None /\ pid # None THEN [w |-> w1, pid |-> pid]
            ELSE [w |-> sleep(w1, F, container_id, n), pid |-> None]

\* C17, mutant: the count of the iterations starts at one
_find_container_pid_from_one(w, F, container_id) == pid_loop(w, F, container_id, 1)

_find_container_pid(w, F, container_id) == pid_loop(w, F, container_id, 0)

RECURSIVE attach_from(_, _, _, _, _)
attach_from(w, F, network_info, container_id, i) ==
    IF i > Len(network_info) THEN w
    ELSE attach_from(vif_attach(w, F, i, network_info[i], container_id),
                     F, network_info, container_id, i + 1)

\* 'ln -sf /proc/<nspid>/ns/net /var/run/netns/<container_id>'
NsLink(nspid, container_id) ==
    <<"/proc/">> \o nspid \o <<"/ns/net", "/var/run/netns/">> \o container_id

\* C16, mutant: the VIFs are attached before the namespace is linked and
\* the loopback brought up
_attach_vifs_first(w, F, inst, network_info) ==
    IF Raised(w) \/ Falsy(network_info) THEN w
    ELSE LET g == _get_container_id(w, F, inst)
        container_id == g.ret IN
    IF Raised(g.w) THEN g.w
    ELSE IF Falsy(container_id) THEN w
    ELSE LET w1 == IF w.netns_dir THEN w
                   ELSE LET m == execute(w, F, "mkdir_netns", "mkdir", <<"/var/run/netns">>)
                        IN IF Raised(m) THEN m ELSE [m EXCEPT !.netns_dir = TRUE]
         IN IF Raised(w1) THEN w1
    ELSE LET r == _find_container_pid(w1, F, container_id) IN
    IF Raised(r.w) THEN r.w
    ELSE IF Falsy(r.pid)
    THEN Raise(r.w, Exc("RuntimeError",
                        <<"Cannot find any PID under container \"">> \o container_id \o <<"\"">>,
                        None))
    ELSE LET a == attach_from(r.w, F, network_info, container_id, 1)
             w2 == execute(a, F, "ln", "ln", NsLink(r.pid, container_id))
             w3 == IF Raised(w2) THEN w2 ELSE [w2 EXCEPT !.netns = @ \cup {container_id}]
             w4 == execute(w3, F, "lo_up", "lo_up", container_id)
         IN IF Raised(w4) THEN w4 ELSE [w4 EXCEPT !.lo_up = @ \cup {container_id}]

\* _attach_vifs from the answer r of _find_container_pid on
attach_with_pid(r, F, network_info, container_id) ==
    IF Raised(r.w) THEN r.w
    ELSE IF Falsy(r.pid)
    THEN Raise(r.w, Exc("RuntimeError",
                        <<"Cannot find any PID under container \"">> \o container_id \o <<"\"">>,
                        None))
    ELSE LET w2 == execute(r.w, F, "ln", "ln", NsLink(r.pid, container_id))
             w3 == IF Raised(w2) THEN w2 ELSE [w2 EXCEPT !.netns = @ \cup {container_id}]
             w4 == execute(w3, F, "lo_up", "lo_up", container_id)
             w5 == IF Raised(w4) THEN w4 ELSE [w4 EXCEPT !.lo_up = @ \cup {container_id}]
         IN attach_from(w5, F, network_info, container_id, 1)

_attach_vifs(w, F, inst, network_info) ==
    IF Raised(w) \/ Falsy(network_info) THEN w
    ELSE LET g == _get_container_id(w, F, inst)
             container_id == g.ret IN
    IF Raised(g.w) THEN g.w
    ELSE IF Falsy(container_id) THEN w
    ELSE LET w1 == IF w.netns_dir THEN w
                   ELSE LET m == execute(w, F, "mkdir_netns", "mkdir", <<"/var/run/netns">>)
                        IN IF Raised(m) THEN m ELSE [m EXCEPT !.netns_dir = TRUE]
         IN IF Raised(w1) THEN w1
    ELSE attach_with_pid(_find_container_pid(w1, F, container_id),
                         F, network_info, container_id)

(***************************************************************************)
(* DockerDriver: resource plan.                                            *)
(***************************************************************************)
\* C10, mutant: the weight is computed in every mode
_get_cpu_shares_every_mode(cf, inst) == Some(inst.flavor.vcpus * 1024)

_get_cpu_shares(cf, inst) ==
    LET cpu_mode == cf.docker_cpu_mode IN
    IF cpu_mode = "cpuset" \/ cpu_mode = "mix"
    THEN Some(inst.flavor.vcpus * 1024)
    ELSE None

(***************************************************************************)
(* DockerDriver: start, stop, network teardown.                            *)
(***************************************************************************)
MigrateSrc == snapshots_directory \o <<"/migrate_src/">>
MigrateDest == snapshots_directory \o <<"/migrate_dest/">>
TarName(dir, name) == dir \o name \o <<".tar">>

IsPrefix(p, s) == Len(p) <= Len(s) /\ SubSeq(s, 1, Len(p)) = p

\* os.path.exists(path)
path_exists(w, path) ==
    path \in w.host_dirs \/ \E f \in w.host_files : f.path = path

\* rm -rf path: the path and everything below it
rm_rf(w, F, pt, path) ==
    IF Raised(w) THEN w
    ELSE LET w1 == execute(w, F, pt, "rm", path) IN
         IF Raised(w1) THEN w1
         ELSE [w1 EXCEPT !.host_dirs = {d \in @ : ~IsPrefix(path, d)},
                         !.host_files = {f \in @ : ~IsPrefix(path, f.path)}]

VolSuffix == <<"_", "v", "o", "l">>

\* C30, mutant: the deploy failure is raised without the kill
start_failed_without_kill(w, F, container_id, inst) ==
    Raise([w EXCEPT !.caught = w.exc],
          Exc("InstanceDeployFailure", <<"Cannot setup network: ">> \o w.exc.msg, inst.name))

\* the except clause of _start_container: kill, then raise the deploy failure
start_failed(w, F, container_id, inst) ==
    LET e == w.exc
        w1 == docker_kill([w EXCEPT !.exc = NoExc, !.caught = e], F, container_id)
    IN IF Raised(w1) THEN w1
       ELSE Raise(w1, Exc("InstanceDeployFailure",
                          <<"Cannot setup network: ">> \o e.msg, inst.name))

\* the try statement of _start_container once its body w2 has run: the
\* except clause, which a call that is asleep has not reached
network_set_up(w2, F, container_id, inst) ==
    IF Raised(w2) /\ ~Asleep(w2) THEN start_failed(w2, F, container_id, inst)
    ELSE w2

_start_container(w, F, cf, container_id, inst, network_info) ==
    IF Raised(w) THEN w
    ELSE LET cpu_shares == _get_cpu_shares(cf, inst)
             vol_ct_name == inst.name \o VolSuffix
             x == _exist_container(w, F, vol_ct_name)
             volumes_from == IF x.ret THEN vol_ct_name ELSE None
             w1 == docker_update_start(x.w, F, container_id,
                       [cpu_shares |-> cpu_shares, volumes_from |-> volumes_from,
                        network_mode |-> <<"none">>, privileged |-> TRUE])
         IN IF Raised(w1) \/ Falsy(network_info) THEN w1
            ELSE network_set_up(_attach_vifs(plug_vifs(w1, F, inst, network_info),
                                             F, inst, network_info),
                                F, container_id, inst)

\* a call asleep in the poll of _start_container goes on: the loop from the
\* iteration of its frame, the rest of _attach_vifs and of the try statement,
\* and what the call op has left to do after _start_container
woken(op, w, inst, network_info) ==
    LET frame == w.frame[1]
        F == frame.F
        w1 == [w EXCEPT !.exc = NoExc, !.frame = None]
        w2 == network_set_up(
                  attach_with_pid(pid_loop(w1, F, frame.container_id, frame.n),
                                  F, network_info, frame.container_id),
                  F, frame.container_id, inst)
    IN IF op = "finish_migration"
       THEN rm_rf(w2, F, "rm_dest", TarName(MigrateDest, inst.name))
       ELSE w2

\* C22, mutant: every error of the first stop is answered by unpause and retry
_stop_container_retries_always(w, F, container_id, inst) ==
    IF Raised(w) THEN w
    ELSE LET w1 == docker_stop(w, F, "stop", container_id) IN
         IF ~Raised(w1) THEN w1
         ELSE docker_stop(docker_unpause([w1 EXCEPT !.exc = NoExc], F, container_id),
                          F, "stop_retry", container_id)

_stop_container(w, F, container_id, inst) ==
    IF Raised(w) THEN w
    ELSE LET w1 == docker_stop(w, F, "stop", container_id) IN
         IF ~Raised(w1) THEN w1
         ELSE IF UnpauseMarker \notin Range(w1.exc.msg) THEN w1
         ELSE docker_stop(docker_unpause([w1 EXCEPT !.exc = NoExc], F, container_id),
                          F, "stop_retry", container_id)

\* C28, mutant: an exception of the two steps is logged and raised again
_network_delete_raises(w, F, inst, network_info, container_id) ==
    IF Raised(w) THEN w
    ELSE LET w1 == teardown_network(w, F, container_id)
             w2 == IF Falsy(network_info) THEN w1
                   ELSE unplug_vifs(w1, F, inst, network_info)
         IN IF Raised(w2) THEN [w2 EXCEPT !.warned = w2.exc] ELSE w2

\* every exception of the two steps is logged (warned) and dropped
_network_delete(w, F, inst, network_info, container_id) ==
    IF Raised(w) THEN w
    ELSE LET w1 == teardown_network(w, F, container_id)
             w2 == IF Falsy(network_info) THEN w1
                   ELSE unplug_vifs(w1, F, inst, network_info)
         IN IF Raised(w2) THEN [w2 EXCEPT !.exc = NoExc, !.warned = w2.exc]
            ELSE w2

(***************************************************************************)
(* DockerDriver: the volume container.                                     *)
(***************************************************************************)
\* network.find_first_ip(instance, network_info): the first assigned address
find_first_ip(inst, network_info) ==
    IF Falsy(network_info) THEN <<>> ELSE VifIp(network_info[1])

\* image_meta.get('properties', {}).get(role), None unless it is truthy
_get_dir_volume(image_meta) ==
    [role \in Roles |->
        IF image_meta # None /\ role \in DOMAIN image_meta.properties
                             /\ ~Falsy(image_meta.properties[role])
        THEN image_meta.properties[role] ELSE None]

RoleDir(role) == CASE role = "log_volume" -> <<"/log/">>
                   [] role = "data_volume" -> <<"/data/">>
                   [] role = "other_volume" -> <<"/other/">>

\* host_dir + '/<role>/' + nova_name + '_' + first_ip
HostDir(role, nova_name, first_ip) ==
    dir_volume_path \o RoleDir(role) \o nova_name \o <<"_">> \o first_ip

RoleOrder == <<"log_volume", "data_volume", "other_volume">>

\* the appends of _create_volume_containers, role by role in the code's order
RECURSIVE all_binds_from(_, _, _, _)
all_binds_from(dir_volumes, nova_name, first_ip, i) ==
    IF i > Len(RoleOrder) THEN <<>>
    ELSE LET role == RoleOrder[i]
             rest == all_binds_from(dir_volumes, nova_name, first_ip, i + 1)
         IN IF Falsy(dir_volumes[role]) THEN rest
            ELSE << HostDir(role, nova_name, first_ip) \o <<":">> \o dir_volumes[role] >>
                 \o rest

RECURSIVE all_volumes_from(_, _)
all_volumes_from(dir_volumes, i) ==
    IF i > Len(RoleOrder) THEN <<>>
    ELSE LET role == RoleOrder[i]
             rest == all_volumes_from(dir_volumes, i + 1)
         IN IF Falsy(dir_volumes[role]) THEN rest ELSE <<dir_volumes[role]>> \o rest

\* the result is the world and the returned flag; the answer of the engine's
\* create call is not looked at
_create_volume_containers(w, F, inst, image_name, image_meta, network_info) ==
    IF Raised(w) THEN [w |-> w, ret |-> FALSE]
    ELSE LET dir_volumes == _get_dir_volume(image_meta) IN
    IF \A role \in Roles : Falsy(dir_volumes[role]) THEN [w |-> w, ret |-> FALSE]
    ELSE LET nova_name == inst.name
             first_ip == find_first_ip(inst, network_info)
             vol_ct_name == nova_name \o VolSuffix
             r == docker_create_container(w, F, "create_vol", "create_vol_none",
                      vol_ct_name,
                      [cpu_shares |-> None, network_disabled |-> TRUE,
                       volumes |-> all_volumes_from(dir_volumes, 1),
                       binds |-> all_binds_from(dir_volumes, nova_name, first_ip, 1),
                       network_mode |-> None, volumes_from |-> None,
                       privileged |-> FALSE])
         IN [w |-> r.w, ret |-> ~Raised(r.w)]

\* shutil.rmtree(dir) when os.path.isdir(dir)
rmtree_if_isdir(w, F, dir) ==
    IF Raised(w) \/ dir \notin w.host_dirs THEN w
    ELSE LET w1 == Log(w, "rmtree", dir) IN
         IF "rmtree" \in F THEN Raise(w1, Exc("OSError", <<"rmtree failed">>, None))
         ELSE [w1 EXCEPT !.host_dirs = @ \ {dir}]

\* C7, mutant: the directory of other_volume is left on the host
_destroy_volume_container_keeps_other(w, F, inst, network_info) ==
    IF Raised(w) THEN w
    ELSE LET nova_name == inst.name
             first_ip == find_first_ip(inst, network_info)
             vol_ct_name == nova_name \o VolSuffix
             x == _exist_container(w, F, vol_ct_name)
         IN IF Raised(x.w) THEN x.w
            ELSE IF ~x.ret THEN w
            ELSE LET w1 == docker_remove_container(w, F, "remove_vol", vol_ct_name)
                     w2 == rmtree_if_isdir(w1, F, HostDir("log_volume", nova_name, first_ip))
                 IN rmtree_if_isdir(w2, F, HostDir("data_volume", nova_name, first_ip))

_destroy_volume_container(w, F, inst, network_info) ==
    IF Raised(w) THEN w
    ELSE LET nova_name == inst.name
             first_ip == find_first_ip(inst, network_info)
             vol_ct_name == nova_name \o VolSuffix
             x == _exist_container(w, F, vol_ct_name)
         IN IF Raised(x.w) THEN x.w
            ELSE IF ~x.ret THEN w
            ELSE LET w1 == docker_remove_container(w, F, "remove_vol", vol_ct_name)
                     w2 == rmtree_if_isdir(w1, F, HostDir("log_volume", nova_name, first_ip))
                     w3 == rmtree_if_isdir(w2, F, HostDir("data_volume", nova_name, first_ip))
                 IN rmtree_if_isdir(w3, F, HostDir("other_volume", nova_name, first_ip))

(***************************************************************************)
(* DockerDriver: the lifecycle calls.                                      *)
(***************************************************************************)
cleanup(w, F, inst, network_info) ==
    IF Raised(w) THEN w
    ELSE LET g == _get_container_id(w, F, inst)
             container_id == g.ret IN
         IF Raised(g.w) THEN g.w
         ELSE IF Falsy(container_id) THEN unplug_vifs(w, F, inst, network_info)
         ELSE _network_delete(docker_remove_container(w, F, "remove", container_id),
                              F, inst, network_info, container_id)

\* C12, mutant: the volume container is destroyed before the primary one is
\* removed
destroy_volume_first(w, F, inst, network_info) ==
    LET g == _get_container_id(w, F, inst)
        container_id == g.ret IN
    IF Raised(g.w) THEN g.w
    ELSE IF Falsy(container_id) THEN w
    ELSE cleanup(_destroy_volume_container(_stop_container(w, F, container_id, inst),
                                           F, inst, network_info),
                 F, inst, network_info)

\* C8, mutant: the container is stopped and its network removed, but the
\* container itself is kept
destroy_keeps_container(w, F, inst, network_info) ==
    LET g == _get_container_id(w, F, inst)
        container_id == g.ret IN
    IF Raised(g.w) THEN g.w
    ELSE IF Falsy(container_id) THEN w
    ELSE _destroy_volume_container(
             _network_delete(_stop_container(w, F, container_id, inst),
                             F, inst, network_info, container_id),
             F, inst, network_info)

\* C29, mutant: the removal is made before the failure of the stop is raised
destroy_despite_stop_failure(w, F, inst, network_info) ==
    LET g == _get_container_id(w, F, inst)
        container_id == g.ret IN
    IF Raised(g.w) THEN g.w
    ELSE IF Falsy(container_id) THEN w
    ELSE LET w1 == _stop_container(w, F, container_id, inst)
             w2 == _destroy_volume_container(
                       cleanup([w1 EXCEPT !.exc = NoExc], F, inst, network_info),
                       F, inst, network_info)
         IN IF Raised(w1) /\ ~Raised(w2) THEN Raise(w2, w1.exc) ELSE w2

destroy(w, F, inst, network_info) ==
    LET g == _get_container_id(w, F, inst)
        container_id == g.ret IN
    IF Raised(g.w) THEN g.w
    ELSE IF Falsy(container_id) THEN w
    ELSE _destroy_volume_container(
             cleanup(_stop_container(w, F, container_id, inst), F, inst, network_info),
             F, inst, network_info)

\* C20, mutant: the container is started again before its network is torn down
reboot_start_first(w, F, cf, inst, network_info) ==
    LET g == _get_container_id(w, F, inst)
        container_id == g.ret IN
    IF Raised(g.w) THEN g.w
    ELSE IF Falsy(container_id) THEN w
    ELSE _network_delete(
             _start_container(_stop_container(w, F, container_id, inst),
                              F, cf, container_id, inst, network_info),
             F, inst, network_info, container_id)

reboot(w, F, cf, inst, network_info) ==
    LET g == _get_container_id(w, F, inst)
        container_id == g.ret IN
    IF Raised(g.w) THEN g.w
    ELSE IF Falsy(container_id) THEN w
    ELSE _start_container(
             _network_delete(_stop_container(w, F, container_id, inst),
                             F, inst, network_info, container_id),
             F, cf, container_id, inst, network_info)

power_on(w, F, cf, inst, network_info) ==
    LET g == _get_container_id(w, F, inst)
        container_id == g.ret IN
    IF Raised(g.w) THEN g.w
    ELSE IF Falsy(container_id) THEN w
    ELSE _start_container(w, F, cf, container_id, inst, network_info)

power_off(w, F, inst) ==
    IF Raised(w) THEN w
    ELSE LET g == _get_container_id(w, F, inst)
             container_id == g.ret IN
         IF Raised(g.w) THEN g.w
         ELSE IF Falsy(container_id) THEN w
         ELSE _stop_container(w, F, container_id, inst)

\* except Exception as e: raise NovaException(msg.format(e), instance_id=name)
Wrapped(w, text, inst) ==
    IF Raised(w) THEN Raise(w, Exc("NovaException", <<text>> \o w.exc.msg, inst.name))
    ELSE w

\* C13, mutant: pause does nothing when the container is absent and lets
\* the engine's error through
pause_if_present(w, F, inst) ==
    LET g == _get_container_id(w, F, inst) IN
    IF Raised(g.w) \/ Falsy(g.ret) THEN g.w
    ELSE docker_pause(w, F, g.ret)

\* the lookup and the engine call are both inside the try statement
pause(w, F, inst) ==
    LET g == _get_container_id(w, F, inst) IN
    Wrapped(docker_pause(g.w, F, g.ret), "Cannot pause container: ", inst)

unpause(w, F, inst) ==
    LET g == _get_container_id(w, F, inst) IN
    Wrapped(docker_unpause(g.w, F, g.ret), "Cannot unpause container: ", inst)

\* the VIF is attached to whatever the lookup answers, the empty id included
attach_interface(w, F, inst, image_meta, vif) ==
    LET w1 == vif_plug(w, F, 1, vif)
        g == _get_container_id(w1, F, inst)
        container_id == g.ret
    IN IF Raised(w1) THEN w1
       ELSE IF Raised(g.w) THEN g.w
       ELSE vif_attach(w1, F, 1, vif, container_id)

detach_interface(w, F, inst, vif) == vif_unplug(w, F, vif)

(***************************************************************************)
(* DockerDriver: spawn.                                                    *)
(***************************************************************************)
\* docker.load_repository_file(name, path): reads the archive at path
docker_load_repository_file(w, F, name, path) ==
    IF Raised(w) THEN w
    ELSE LET w1 == Log(w, "load_repository_file", name) IN
         IF "load" \in F THEN Raise(w1, APIError(<<"load failed">>))
         ELSE IF \A f \in w.host_files : f.path # path
              THEN Raise(w1, Exc("IOError", <<"No such file or directory: ">> \o path, None))
         ELSE [w1 EXCEPT !.images = @ \cup {name}]

\* docker.inspect_image(name)
docker_inspect_image(w, F, name) ==
    IF Raised(w) THEN w
    ELSE IF "inspect_image" \in F THEN Raise(w, APIError(<<"inspect image failed">>))
    ELSE IF name \notin w.images THEN Raise(w, APIError(<<"No such image: ">> \o name))
    ELSE w

_get_image_name(w, inst, image) ==
    IF image.container_format # "docker"
    THEN [w |-> Raise(w, Exc("InstanceDeployFailure",
                             <<"Image container format not supported (",
                               image.container_format, ")">>, inst.name)),
          name |-> None]
    ELSE [w |-> w, name |-> image.name]

\* images.fetch(context, image_id, out_path, ...): writes the image to out_path
images_fetch(w, F, out_path) ==
    IF Raised(w) THEN w
    ELSE IF "fetch" \in F THEN Raise(w, Exc("Exception", <<"fetch failed">>, None))
    ELSE [w EXCEPT !.host_files = @ \cup {[path |-> out_path, data |-> "full"]}]

\* images.fetch and docker.load_repository_file under one except clause, in
\* a temporary directory that is gone afterwards; then the inspection of the
\* image, outside the try statement
_pull_missing_image(w, F, image_meta, inst) ==
    IF Raised(w) THEN w
    ELSE LET snapshot_directory == snapshots_directory
             w1 == [Log(w, "ensure_tree", snapshot_directory)
                        EXCEPT !.host_dirs = @ \cup {snapshot_directory}]
             out_path == snapshot_directory \o <<"/tmp", "/out">>
             w2 == docker_load_repository_file(images_fetch(w1, F, out_path),
                                               F, image_meta.name, out_path)
             w3 == [w2 EXCEPT !.host_files = w1.host_files]
             w4 == IF Raised(w3)
                   THEN Raise(w3, Exc("NovaException",
                                      <<"Cannot load repository file: ">> \o w3.exc.msg,
                                      image_meta.name))
                   ELSE w3
         IN docker_inspect_image(w4, F, image_meta.name)

_tag_image_name(w, F, image_meta, image_name) ==
    IF Raised(w) THEN w
    ELSE LET image_type ==
                 IF image_meta # None
                      /\ "docker_image_type" \in DOMAIN image_meta.properties
                      /\ ~Falsy(image_meta.properties["docker_image_type"])
                 THEN image_meta.properties["docker_image_type"]
                 ELSE <<"repository">>
         IN IF image_type # <<"image">> THEN w
            ELSE LET image_meta_uuid == image_meta.id
                     image_id == <<image_meta_uuid[1], image_meta_uuid[3]>>
                     w1 == Log(w, "tag", image_id \o image_name)
                 IN IF "tag" \in F THEN Raise(w1, APIError(<<"tag failed">>))
                    ELSE w1

_create_container_args(cf, inst, image_meta, network_info) ==
    [cpu_shares |-> _get_cpu_shares(cf, inst),
     network_mode |-> <<"none">>,
     privileged |-> TRUE,
     volumes_from |-> None]

\* cpu_shares is popped from args, the rest becomes the host configuration
_create_container(w, F, inst, image_name, args) ==
    docker_create_container(w, F, "create", "create_none", inst.name,
        [cpu_shares |-> args.cpu_shares, network_disabled |-> FALSE,
         volumes |-> <<>>, binds |-> <<>>,
         network_mode |-> args.network_mode, volumes_from |-> args.volumes_from,
         privileged |-> args.privileged])

\* C11, mutant: the primary container is created before the volume container
spawn_primary_first(w, F, cf, inst, image_meta, network_info) ==
    LET n == _get_image_name(w, inst, image_meta)
        image_name == n.name
    IN IF Raised(n.w) THEN n.w
    ELSE LET i == docker_inspect_image(w, F, image_name)
             image_inspect_info == IF Raised(i) /\ i.exc.type = "APIError" THEN None
                                   ELSE Some(image_name)
             w1 == IF Falsy(image_inspect_info)
                   THEN _pull_missing_image(w, F, image_meta, inst)
                   ELSE w
             w2 == _tag_image_name(w1, F, image_meta, image_name)
             args == _create_container_args(cf, inst, image_meta, network_info)
             c == _create_container(w2, F, inst, image_name, args)
             v == _create_volume_containers(c.w, F, inst, image_name, image_meta,
                                            network_info)
         IN IF Raised(v.w) THEN v.w
            ELSE _start_container([v.w EXCEPT !.have_vol = Some(v.ret)],
                                  F, cf, c.id, inst, network_info)

spawn(w, F, cf, inst, image_meta, network_info) ==
    LET n == _get_image_name(w, inst, image_meta)
        image_name == n.name
    IN IF Raised(n.w) THEN n.w
    ELSE LET i == docker_inspect_image(w, F, image_name)
             image_inspect_info == IF Raised(i) /\ i.exc.type = "APIError" THEN None
                                   ELSE Some(image_name)
             w1 == IF Falsy(image_inspect_info)
                   THEN _pull_missing_image(w, F, image_meta, inst)
                   ELSE w
             w2 == _tag_image_name(w1, F, image_meta, image_name)
             args == _create_container_args(cf, inst, image_meta, network_info)
             v == _create_volume_containers(w2, F, inst, image_name, image_meta,
                                            network_info)
             args2 == IF v.ret THEN [args EXCEPT !.volumes_from = inst.name \o VolSuffix]
                      ELSE args
             c == _create_container([v.w EXCEPT !.have_vol = IF Raised(v.w) THEN None
                                                             ELSE Some(v.ret)],
                                    F, inst, image_name, args2)
         IN IF Raised(c.w) THEN c.w
            ELSE IF Falsy(c.id)
                 THEN Raise(c.w, Exc("InstanceDeployFailure",
                                     <<"Cannot create container">>, inst.name))
            ELSE _start_container(c.w, F, cf, c.id, inst, network_info)

(***************************************************************************)
(* DockerDriver: migration export.                                         *)
(***************************************************************************)
docker_commit(w, F, container_id, repository) ==
    IF Raised(w) THEN w
    ELSE LET w1 == Log(w, "commit", repository) IN
         IF "commit" \in F THEN Raise(w1, APIError(<<"commit failed">>))
         ELSE IF ByRef(w, container_id) = {} THEN Raise(w1, NoSuch(container_id))
         ELSE [w1 EXCEPT !.images = @ \cup {repository}]

docker_get_image(w, F, image) ==
    IF Raised(w) THEN w
    ELSE IF "get_image" \in F THEN Raise(w, APIError(<<"get image failed">>))
    ELSE IF image \notin w.images THEN Raise(w, APIError(<<"No such image: ">> \o image))
    ELSE w

docker_remove_image(w, F, image) ==
    IF Raised(w) THEN w
    ELSE LET w1 == Log(w, "remove_image", image) IN
         IF "remove_image" \in F THEN Raise(w1, APIError(<<"remove image failed">>))
         ELSE IF image \notin w.images THEN Raise(w1, APIError(<<"No such image: ">> \o image))
         ELSE [w1 EXCEPT !.images = @ \ {image}]

\* open(name, 'w'), write(data), close()
write_file(w, F, name) ==
    IF Raised(w) THEN w
    ELSE LET w1 == Log(w, "open", name) IN
         IF "open" \in F THEN Raise(w1, Exc("IOError", <<"open failed">>, None))
         ELSE LET others == {f \in w.host_files : f.path # name}
                  w2 == Log([w1 EXCEPT !.host_files =
                                 others \cup {[path |-> name, data |-> "partial"]}],
                            "write", name)
              IN IF "write" \in F THEN Raise(w2, Exc("IOError", <<"write failed">>, None))
                 ELSE [w2 EXCEPT !.host_files =
                           others \cup {[path |-> name, data |-> "full"]}]

\* hostutils.copy_image(src, dest, host=dest_host)
copy_image(w, F, src, dest, name) ==
    IF Raised(w) THEN w
    ELSE LET w1 == Log(w, "copy_image", src) IN
         IF "copy" \in F THEN Raise(w1, Exc("ProcessExecutionError", <<"copy failed">>, None))
         ELSE [w1 EXCEPT !.dest_files = @ \cup
                  {TarName(dest, name) : f \in {g \in w.host_files :
                                                  g.path = TarName(src, name)}}]

\* except Exception: pass around the two steps
_cleanup_migration(w, F, migrate_src, image_name) ==
    IF Raised(w) THEN w
    ELSE LET w1 == IF path_exists(w, migrate_src) THEN rm_rf(w, F, "rm", migrate_src)
                   ELSE w
             w2 == docker_remove_image(w1, F, image_name)
         IN [w2 EXCEPT !.exc = NoExc]

\* Python's binding of a call's arguments to the parameters params: the
\* positional values fill the first parameters, and a keyword that names a
\* parameter already filled, or no parameter at all, is a TypeError
BindError(params, npositional, keywords) ==
    \/ npositional > Len(params)
    \/ \E k \in keywords : k \notin Range(params)
    \/ \E i \in 1..npositional : i <= Len(params) /\ params[i] \in keywords
    \/ \E i \in 1..Len(params) : i > npositional /\ params[i] \notin keywords

\* line 833: self._cleanup_migration(dest, image_tar_name, image_name=name),
\* with image_tar_name a local that is bound only once line 821 has run
call_cleanup_migration(w, F, dest, image_tar_name, inst) ==
    IF image_tar_name = None
    THEN Raise(w, Exc("UnboundLocalError",
                      <<"local variable 'image_tar_name' referenced before assignment">>,
                      None))
    ELSE IF BindError(<<"migrate_src", "image_name">>, 2, {"image_name"})
    THEN Raise(w, Exc("TypeError",
                      <<"_cleanup_migration() got multiple values for keyword argument 'image_name'">>,
                      None))
    ELSE _cleanup_migration(w, F, dest, image_tar_name)

\* excutils.save_and_reraise_exception around body: an exception of the body
\* drops the saved one, otherwise the saved one is raised again
save_and_reraise_exception(saved, after_body) ==
    IF Raised(after_body) THEN after_body ELSE Raise(after_body, saved)

\* C24, mutant: the instance is powered off before the archive is written
migrate_export_stops_first(w, F, inst, dest, flavor, container_id) ==
    LET migrate_src == MigrateSrc
        migrate_dest == MigrateDest
        m == execute(w, F, "mkdir_src", "mkdir", migrate_src)
        w1 == IF Raised(m) THEN m
              ELSE [m EXCEPT !.host_dirs = @ \cup {migrate_src}]
        w2 == docker_commit(w1, F, container_id, inst.name)
        w3 == docker_get_image(w2, F, inst.name)
        image_tar_name == IF Raised(w3) THEN None
                          ELSE TarName(migrate_src, inst.name)
        w4 == power_off(w3, F, inst)
        w5 == write_file(w4, F, TarName(migrate_src, inst.name))
        w6 == copy_image(w5, F, migrate_src, migrate_dest, inst.name)
    IN IF ~Raised(w6) THEN w6
       ELSE save_and_reraise_exception(w6.exc,
                call_cleanup_migration([w6 EXCEPT !.exc = NoExc, !.caught = w6.exc],
                                       F, dest, image_tar_name, inst))

\* the try statement of migrate_disk_and_power_off and its except clause
migrate_export(w, F, inst, dest, flavor, container_id) ==
    LET migrate_src == MigrateSrc
        migrate_dest == MigrateDest
        m == execute(w, F, "mkdir_src", "mkdir", migrate_src)
        w1 == IF Raised(m) THEN m
              ELSE [m EXCEPT !.host_dirs = @ \cup {migrate_src}]
        w2 == docker_commit(w1, F, container_id, inst.name)
        w3 == docker_get_image(w2, F, inst.name)
        image_tar_name == IF Raised(w3) THEN None
                          ELSE TarName(migrate_src, inst.name)
        w4 == write_file(w3, F, TarName(migrate_src, inst.name))
        w5 == power_off(w4, F, inst)
        w6 == copy_image(w5, F, migrate_src, migrate_dest, inst.name)
    IN IF ~Raised(w6) THEN w6
       ELSE save_and_reraise_exception(w6.exc,
                call_cleanup_migration([w6 EXCEPT !.exc = NoExc, !.caught = w6.exc],
                                       F, dest, image_tar_name, inst))

\* C4, mutant: only the root disk is compared
migrate_root_gb_only(w, F, inst, dest, flavor) ==
    LET g == _get_container_id(w, F, inst) IN
    IF Raised(g.w) THEN g.w
    ELSE IF flavor.root_gb < inst.root_gb
    THEN Raise(w, Exc("InstanceFaultRollback", <<"Unable to resize disk down.">>, None))
    ELSE migrate_export(w, F, inst, dest, flavor, g.ret)

\* the lookup comes first, then the check of the sizes, then the try statement
migrate_disk_and_power_off(w, F, inst, dest, flavor) ==
    LET g == _get_container_id(w, F, inst)
        container_id == g.ret IN
    IF Raised(g.w) THEN g.w
    ELSE IF \E kind \in {"root_gb", "ephemeral_gb"} : flavor[kind] < inst[kind]
    THEN Raise(w, Exc("InstanceFaultRollback", <<"Unable to resize disk down.">>, None))
    ELSE migrate_export(w, F, inst, dest, flavor, container_id)

(***************************************************************************)
(* DockerDriver: snapshot.                                                 *)
(***************************************************************************)
\* instance['uuid']
UuidOf(inst) == <<"uuid-of-">> \o inst.name

\* the position of the last ':' of name
LastColon(name) ==
    CHOOSE i \in 1..Len(name) :
        name[i] = ":" /\ \A j \in (i + 1)..Len(name) : name[j] # ":"

\* image_service.show(context, image_id, True): the image of image_href
glance_show(w, F, image) ==
    IF Raised(w) THEN w
    ELSE IF "glance_show" \in F THEN Raise(w, Exc("ImageNotFound", <<"show failed">>, None))
    ELSE w

\* image_service.update(context, image_href, metadata, raw)
glance_update(w, F, image_href) ==
    IF Raised(w) THEN w
    ELSE LET w1 == Log(w, "glance_update", image_href) IN
         IF "glance_update" \in F
         THEN Raise(w1, Exc("GlanceError", <<"update failed">>, None))
         ELSE w1

\* image is what the image service shows for image_href; the task states go
\* to the caller's update_task_state and are no state of the driver
snapshot(w, F, inst, image_href, image) ==
    LET g == _get_container_id(w, F, inst)
        container_id == g.ret IN
    IF Raised(g.w) THEN g.w
    ELSE IF Falsy(container_id)
    THEN Raise(w, Exc("InstanceNotRunning", <<>>, UuidOf(inst)))
    ELSE LET commit_name == IF ":" \notin Range(image.name) THEN image.name
                            ELSE SubSeq(image.name, 1, LastColon(image.name) - 1)
             tag == IF ":" \notin Range(image.name) THEN <<"latest">>
                    ELSE SubSeq(image.name, LastColon(image.name) + 1, Len(image.name))
             w1 == docker_commit(glance_show(w, F, image), F, container_id, commit_name)
         IN IF Raised(w1) THEN w1
            ELSE Wrapped(glance_update(docker_get_image(w1, F, commit_name),
                                       F, image_href),
                         "Error saving image: ", inst)

(***************************************************************************)
(* DockerDriver: restore, and the end of a migration on the source host.   *)
(***************************************************************************)
\* _start_container is called without network_info, which is then None
restore(w, F, cf, inst) ==
    LET g == _get_container_id(w, F, inst)
        container_id == g.ret IN
    IF Raised(g.w) THEN g.w
    ELSE IF Falsy(container_id) THEN w
    ELSE _start_container(w, F, cf, container_id, inst, None)

\* C15, mutant: the source instance is destroyed, volume container included
_cleanup_resize_destroys(w, F, cf, inst, network_info) ==
    destroy(w, F, inst, network_info)

_cleanup_resize(w, F, cf, inst, network_info) ==
    LET g == _get_container_id(w, F, inst)
        container_id == g.ret IN
    IF Raised(g.w) THEN g.w
    ELSE IF Falsy(container_id) THEN w
    ELSE LET w1 == _stop_container(w, F, container_id, inst)
             w2 == docker_remove_container(w1, F, "remove", container_id)
             w3 == _network_delete(w2, F, inst, network_info, container_id)
             delete_migration_source == cf.delete_migration_source
         IN IF Raised(w3) \/ ~delete_migration_source THEN w3
            ELSE rm_rf(w3, F, "rm_src", TarName(MigrateSrc, inst.name))

confirm_migration(w, F, cf, inst, network_info) ==
    _cleanup_resize(w, F, cf, inst, network_info)

finish_revert_migration(w, F, cf, inst, network_info) ==
    power_on(w, F, cf, inst, network_info)

(***************************************************************************)
(* DockerDriver: the end of a migration on the destination host.           *)
(***************************************************************************)
\* C25, mutant: the archive is deleted before the container is started
finish_migration_deletes_first(w, F, cf, inst, image_meta, network_info) ==
    LET image_name == inst.name
        image_tar_name == TarName(MigrateDest, image_name)
        w1 == docker_load_repository_file(w, F, image_name, image_tar_name)
        w2 == docker_inspect_image(w1, F, image_name)
        args == _create_container_args(cf, inst, image_meta, network_info)
        c == _create_container(w2, F, inst, image_name, args)
    IN IF Raised(c.w) THEN c.w
       ELSE IF Falsy(c.id)
            THEN Raise(c.w, Exc("InstanceDeployFailure",
                                <<"Cannot create container">>, inst.name))
       ELSE _start_container(rm_rf(c.w, F, "rm_dest", image_tar_name),
                             F, cf, c.id, inst, network_info)

finish_migration(w, F, cf, inst, image_meta, network_info) ==
    LET migrate_dest == MigrateDest
        image_name == inst.name
        image_tar_name == TarName(migrate_dest, image_name)
        w1 == docker_load_repository_file(w, F, image_name, image_tar_name)
        w2 == docker_inspect_image(w1, F, image_name)
        args == _create_container_args(cf, inst, image_meta, network_info)
        c == _create_container(w2, F, inst, image_name, args)
    IN IF Raised(c.w) THEN c.w
       ELSE IF Falsy(c.id)
            THEN Raise(c.w, Exc("InstanceDeployFailure",
                                <<"Cannot create container">>, inst.name))
       ELSE rm_rf(_start_container(c.w, F, cf, c.id, inst, network_info),
                  F, "rm_dest", image_tar_name)

(***************************************************************************)
(* The state: the engine, the host, the arguments the compute manager       *)
(* passes, and the driver call in progress.  The compute manager makes a    *)
(* call, receives its outcome (Return) and only then makes the next one;    *)
(* while the call is in time.sleep another caller's call can run (Meanwhile)*)
(* before the call goes on (Wake).  A call that does not sleep is one step. *)
(***************************************************************************)
VARIABLES
    containers,    \* the engine's containers
    images,        \* the names of the engine's images
    host_dirs,     \* the directories of the host
    host_files,    \* the files of the host
    dest_files,    \* the files of the migration's destination host
    netns_dir,     \* whether /var/run/netns exists
    netns,         \* the container ids with a namespace symlink
    lo_up,         \* the container ids whose loopback is up
    plugged,       \* the VIFs plugged on the host
    attached,      \* the VIFs attached to the container
    conf,          \* CONF.docker
    instance,      \* the instance the compute manager passes to every call
    network_info,  \* its network_info
    last,          \* the call that has just ended: arguments, calls, outcome
    before,        \* the engine and host as they were when that call began
    prev           \* "destroy" when the call that ended before it was a destroy
                   \* that returned normally, "other" otherwise

vars == <<containers, images, host_dirs, host_files, dest_files, netns_dir, netns,
          lo_up, plugged, attached, conf, instance, network_info, last, before, prev>>

\* the engine and the host
Engine ==
    [containers |-> containers, images |-> images, host_dirs |-> host_dirs,
     host_files |-> host_files, dest_files |-> dest_files, netns_dir |-> netns_dir,
     netns |-> netns, lo_up |-> lo_up, plugged |-> plugged, attached |-> attached]

\* the world a call starts in
World ==
    [containers |-> containers, images |-> images, host_dirs |-> host_dirs,
     host_files |-> host_files, dest_files |-> dest_files, netns_dir |-> netns_dir,
     netns |-> netns, lo_up |-> lo_up, plugged |-> plugged, attached |-> attached,
     calls |-> <<>>, exc |-> NoExc, caught |-> NoExc, inspects |-> 0, sleeps |-> 0,
     have_vol |-> None, pid_delay |-> 0, warned |-> NoExc, frame |-> None]

ForeignContainer ==
    [Names |-> << <<"/">> \o ForeignName >>, Id |-> IdOf(ForeignName),
     State |-> "running",
     Config |-> [cpu_shares |-> None, network_disabled |-> FALSE, volumes |-> <<>>,
                 binds |-> <<>>, network_mode |-> None, volumes_from |-> None,
                 privileged |-> FALSE],
     HostConfig |-> NoHostConfig]

NoCall == [op |-> "none", exc |-> NoExc, caught |-> NoExc, calls |-> <<>>,
           inspects |-> 0, sleeps |-> 0, have_vol |-> None, pid_delay |-> 0,
           warned |-> NoExc, frame |-> None, others |-> FALSE,
           image_meta |-> None,
           sizes |-> None, flavor |-> None]
NoPrev == "other"

InitEngine ==
    /\ containers = {ForeignContainer}
    /\ images = {}
    /\ host_dirs = {}
    /\ host_files = {}
    /\ dest_files = {}
    /\ netns_dir = FALSE
    /\ netns = {}
    /\ lo_up = {}
    /\ plugged = {}
    /\ attached = {}
    /\ last = NoCall
    /\ before = None
    /\ prev = NoPrev

Idle == last.op = "none"

\* the call op, made in World, ended in world w, or went to sleep in it
Done(op, w, image_meta, sizes, flavor) ==
    /\ Idle
    /\ containers' = w.containers
    /\ images' = w.images
    /\ host_dirs' = w.host_dirs
    /\ host_files' = w.host_files
    /\ dest_files' = w.dest_files
    /\ netns_dir' = w.netns_dir
    /\ netns' = w.netns
    /\ lo_up' = w.lo_up
    /\ plugged' = w.plugged
    /\ attached' = w.attached
    /\ last' = [op |-> op, exc |-> w.exc, caught |-> w.caught, calls |-> w.calls,
                inspects |-> w.inspects, sleeps |-> w.sleeps,
                have_vol |-> w.have_vol, pid_delay |-> w.pid_delay,
                warned |-> w.warned, frame |-> w.frame, others |-> FALSE,
                image_meta |-> image_meta, sizes |-> sizes, flavor |-> flavor]
    /\ before' = Engine
    /\ UNCHANGED <<conf, instance, network_info, prev>>

\* the compute manager receives the outcome of the call
Return ==
    /\ ~Idle
    /\ ~Asleep(last)
    /\ prev' = IF last.op = "destroy" /\ last.exc = NoExc THEN "destroy" ELSE "other"
    /\ last' = NoCall
    /\ before' = None
    /\ UNCHANGED <<containers, images, host_dirs, host_files, dest_files, netns_dir,
                   netns, lo_up, plugged, attached, conf, instance, network_info>>

(***************************************************************************)
(* The calls the environment can make fail, per driver call: at most one   *)
(* call of the main path (P), and any of the calls whose failure the       *)
(* driver handles or runs into while handling another (H).                 *)
(***************************************************************************)
FaultSets(P, H) == {p \cup h : p \in {{}} \cup {{x} : x \in P}, h \in SUBSET H}
NoFaults == {{}}

\* the calls of the lookup by name, failing or answering 404
LookupPts == {"containers", "containers404", "inspect_container", "inspect_container404"}

NetPts == {"mkdir_netns", "ln", "lo_up"}
              \cup {PlugPt(i) : i \in 1..Len(network_info)}
              \cup {AttachPt(i) : i \in 1..Len(network_info)}
StopPts == {"stop", "unpause", "stop_retry"}

SpawnWith(metas, FS) ==
    \E image_meta \in metas : \E F \in FS :
        Idle /\ \E w \in {spawn(World, F, conf, instance, image_meta, network_info)} :
            Done("spawn", w, image_meta, None, None)

DestroyWith(FS) ==
    \E F \in FS :
        Idle /\ \E w \in {destroy(World, F, instance, network_info)} :
            Done("destroy", w, None, None, None)

CleanupWith(FS) ==
    \E F \in FS :
        Idle /\ \E w \in {cleanup(World, F, instance, network_info)} :
            Done("cleanup", w, None, None, None)

RebootWith(FS) ==
    \E F \in FS :
        Idle /\ \E w \in {reboot(World, F, conf, instance, network_info)} :
            Done("reboot", w, None, None, None)

PowerOnWith(FS) ==
    \E F \in FS :
        Idle /\ \E w \in {power_on(World, F, conf, instance, network_info)} :
            Done("power_on", w, None, None, None)

PowerOffWith(FS) ==
    \E F \in FS :
        Idle /\ \E w \in {power_off(World, F, instance)} :
            Done("power_off", w, None, None, None)

PauseWith(FS) ==
    \E F \in FS : Idle /\ \E w \in {pause(World, F, instance)} :
            Done("pause", w, None, None, None)

UnpauseWith(FS) ==
    \E F \in FS : Idle /\ \E w \in {unpause(World, F, instance)} :
            Done("unpause", w, None, None, None)

\* the lookup comes before the check of the sizes, so that a call that is
\* rejected for its sizes can still fail in the lookup
MigrateWith(FS) ==
    \E sizes \in DiskSizes : \E flavor \in DiskSizes : \E F \in FS :
        Idle /\ \E w \in {migrate_disk_and_power_off(World, F,
                      [name |-> instance.name, flavor |-> instance.flavor,
                       root_gb |-> sizes.root_gb,
                       ephemeral_gb |-> sizes.ephemeral_gb],
                      <<"dest-host">>, flavor)} :
            Done("migrate_disk_and_power_off", w, None, sizes, flavor)

RestoreWith(FS) ==
    \E F \in FS : Idle /\ \E w \in {restore(World, F, conf, instance)} :
            Done("restore", w, None, None, None)

ConfirmMigrationWith(FS) ==
    \E F \in FS :
        Idle /\ \E w \in {confirm_migration(World, F, conf, instance, network_info)} :
            Done("confirm_migration", w, None, None, None)

FinishRevertMigrationWith(FS) ==
    \E F \in FS :
        Idle /\ \E w \in {finish_revert_migration(World, F, conf, instance, network_info)} :
            Done("finish_revert_migration", w, None, None, None)

FinishMigrationWith(FS) ==
    \E F \in FS :
        Idle /\ \E w \in {finish_migration(World, F, conf, instance, PlainImage, network_info)} :
            Done("finish_migration", w, PlainImage, None, None)

(***************************************************************************)
(* Spec: the lifecycle calls on one instance, with every failure of the    *)
(* engine, of the VIF driver and of the host commands.                     *)
(***************************************************************************)
DefaultConf == [docker_cpu_mode |-> "cpushare", delete_migration_source |-> FALSE]
DefaultInstance == [name |-> InstanceName, flavor |-> [vcpus |-> 1]]

Init ==
    /\ InitEngine
    /\ conf = DefaultConf
    /\ instance = DefaultInstance
    /\ network_info \in NetInfos

SpawnImages == {PlainImage, ImageMeta("docker", {"log_volume"}, None),
                ImageMeta("docker", {}, <<"image">>), ImageMeta("ovf", {}, None)}

\* the call asleep in time.sleep wakes up and runs to its end or its next sleep
Wake ==
    /\ Asleep(last)
    /\ \E w \in {woken(last.op,
                      [World EXCEPT !.calls = last.calls, !.exc = last.exc,
                                    !.caught = last.caught, !.inspects = last.inspects,
                                    !.sleeps = last.sleeps, !.have_vol = last.have_vol,
                                    !.pid_delay = last.pid_delay, !.warned = last.warned,
                                    !.frame = last.frame],
                      instance, network_info)} :
          /\ containers' = w.containers
          /\ images' = w.images
          /\ host_dirs' = w.host_dirs
          /\ host_files' = w.host_files
          /\ dest_files' = w.dest_files
          /\ netns_dir' = w.netns_dir
          /\ netns' = w.netns
          /\ lo_up' = w.lo_up
          /\ plugged' = w.plugged
          /\ attached' = w.attached
          /\ last' = [last EXCEPT !.exc = w.exc, !.caught = w.caught, !.calls = w.calls,
                                  !.inspects = w.inspects, !.sleeps = w.sleeps,
                                  !.warned = w.warned, !.frame = w.frame]
    /\ UNCHANGED <<conf, instance, network_info, before, prev>>

\* while the call is asleep, another caller's destroy of the instance runs
Meanwhile ==
    /\ Asleep(last)
    /\ \E w \in {destroy(World, {}, instance, network_info)} :
          /\ containers' = w.containers
          /\ images' = w.images
          /\ host_dirs' = w.host_dirs
          /\ host_files' = w.host_files
          /\ dest_files' = w.dest_files
          /\ netns_dir' = w.netns_dir
          /\ netns' = w.netns
          /\ lo_up' = w.lo_up
          /\ plugged' = w.plugged
          /\ attached' = w.attached
    /\ last' = [last EXCEPT !.others = TRUE]
    /\ UNCHANGED <<conf, instance, network_info, before, prev>>

Next ==
    \/ SpawnWith(SpawnImages,
                 FaultSets({"fetch", "load", "inspect_image", "tag", "create_vol",
                            "create_vol_none", "create", "create_none", "start"}
                           \cup NetPts, {"kill"}))
    \/ DestroyWith(FaultSets(StopPts \cup {"remove", "remove_vol", "rmtree"},
                             {"teardown", "unplug"}))
    \/ CleanupWith(FaultSets({"remove"}, {"teardown", "unplug"}))
    \/ RebootWith(FaultSets(StopPts \cup {"start"} \cup NetPts,
                            {"teardown", "unplug", "kill"}))
    \/ PowerOnWith(FaultSets({"start"} \cup NetPts, {"kill"}))
    \/ PowerOffWith(FaultSets(StopPts, {}))
    \/ PauseWith(FaultSets({"pause"}, {}))
    \/ UnpauseWith(FaultSets({"unpause"}, {}))
    \/ Return

Spec == Init /\ [][Next]_vars

(***************************************************************************)
(* SpecVol: images that declare every set of volume roles, with the        *)
(* failures of the calls that create and remove containers and directories.*)
(***************************************************************************)
VolImages == {ImageMeta("docker", d, None) : d \in SUBSET Roles}

NextVol ==
    \/ SpawnWith(VolImages, FaultSets({"create_vol", "create_vol_none", "create",
                                       "create_none"}, {}))
    \/ DestroyWith(FaultSets({"stop", "remove", "remove_vol", "rmtree"}, {}))
    \/ CleanupWith(NoFaults)
    \/ PowerOffWith(NoFaults)
    \/ PowerOnWith(NoFaults)
    \/ Return

SpecVol == Init /\ [][NextVol]_vars

(***************************************************************************)
(* SpecPlan: the resource plan, for every allocation mode and vcpu count.  *)
(***************************************************************************)
InitPlan ==
    /\ InitEngine
    /\ conf \in [docker_cpu_mode : CpuModes, delete_migration_source : {FALSE}]
    /\ instance \in [name : {InstanceName}, flavor : [vcpus : 1..MaxVcpus]]
    /\ network_info \in NetInfos

NextPlan ==
    \/ SpawnWith({PlainImage, FullImage}, FaultSets({"start"}, {}))
    \/ DestroyWith(NoFaults)
    \/ RebootWith(NoFaults)
    \/ PowerOffWith(NoFaults)
    \/ PowerOnWith(NoFaults)
    \/ Return

SpecPlan == InitPlan /\ [][NextPlan]_vars

(***************************************************************************)
(* SpecIface: the calls that plug, attach and unplug VIFs on their own and *)
(* the snapshot of the instance, among the lifecycle calls.                *)
(***************************************************************************)
\* the VIFs the compute manager attaches and detaches one by one
SingleVifs == {TheVifs[i] : i \in 1..MaxVifs}
\* the images the image service shows for the snapshot's image_href
SnapshotImages == {[name |-> <<"snap">>], [name |-> <<"snap", ":", "v2">>]}

AttachInterfaceWith(FS) ==
    \E vif \in SingleVifs : \E F \in FS :
        Idle /\ \E w \in {attach_interface(World, F, instance, None, vif)} :
            Done("attach_interface", w, None, None, None)

DetachInterfaceWith(FS) ==
    \E vif \in SingleVifs : \E F \in FS :
        Idle /\ \E w \in {detach_interface(World, F, instance, vif)} :
            Done("detach_interface", w, None, None, None)

PlugVifsWith(FS) ==
    \E F \in FS :
        Idle /\ \E w \in {plug_vifs(World, F, instance, network_info)} :
            Done("plug_vifs", w, None, None, None)

UnplugVifsWith(FS) ==
    \E F \in FS :
        Idle /\ \E w \in {unplug_vifs(World, F, instance, network_info)} :
            Done("unplug_vifs", w, None, None, None)

SnapshotWith(FS) ==
    \E image \in SnapshotImages : \E F \in FS :
        Idle /\ \E w \in {snapshot(World, F, instance, <<"href">>, image)} :
            Done("snapshot", w, image, None, None)

NextIface ==
    \/ SpawnWith({PlainImage}, NoFaults)
    \/ DestroyWith(NoFaults)
    \/ PowerOffWith(NoFaults)
    \/ PowerOnWith(NoFaults)
    \/ AttachInterfaceWith(FaultSets({PlugPt(1), AttachPt(1)} \cup LookupPts, {}))
    \/ DetachInterfaceWith(FaultSets({"unplug"}, {}))
    \/ PlugVifsWith(FaultSets({PlugPt(i) : i \in 1..Len(network_info)}, {}))
    \/ UnplugVifsWith(FaultSets({"unplug"}, {}))
    \/ SnapshotWith(FaultSets({"glance_show", "commit", "get_image", "glance_update"}
                                  \cup LookupPts, {}))
    \/ Return

SpecIface == Init /\ [][NextIface]_vars

(***************************************************************************)
(* SpecMigrate: the migration export of an instance in every state the     *)
(* lifecycle calls leave it in, with every failure of the export's steps.  *)
(***************************************************************************)
InitMigrate ==
    /\ InitEngine
    /\ conf \in [docker_cpu_mode : {"cpushare"}, delete_migration_source : BOOLEAN]
    /\ instance = DefaultInstance
    /\ network_info \in NetInfos

NextMigrate ==
    \/ SpawnWith({PlainImage, FullImage}, FaultSets({"start"}, {}))
    \/ PowerOffWith(NoFaults)
    \/ PowerOnWith(NoFaults)
    \/ PauseWith(NoFaults)
    \/ MigrateWith(FaultSets({"mkdir_src", "commit", "get_image", "open", "write",
                              "stop", "copy"}, {"remove_image"}))
    \/ Return

SpecMigrate == InitMigrate /\ [][NextMigrate]_vars

(***************************************************************************)
(* SpecFrame: every call of the driver on an instance with or without a    *)
(* volume container, with a failure of each kind of step.                  *)
(***************************************************************************)
NextFrame ==
    \/ SpawnWith({PlainImage, FullImage}, NoFaults)
    \/ DestroyWith(FaultSets({}, {"teardown", "unplug"}))
    \/ CleanupWith(FaultSets({"remove"}, {}))
    \/ RebootWith(FaultSets({"stop", "start", "lo_up"}, {"teardown", "unplug"}))
    \/ PowerOnWith(FaultSets({"lo_up"}, {}))
    \/ PowerOffWith(FaultSets({"stop"}, {}))
    \/ PauseWith(NoFaults)
    \/ UnpauseWith(NoFaults)
    \/ RestoreWith(FaultSets({"start"}, {}))
    \/ MigrateWith(FaultSets({"stop", "copy"}, {}))
    \/ ConfirmMigrationWith(FaultSets({"stop", "remove", "rm_src"},
                                      {"teardown", "unplug"}))
    \/ FinishRevertMigrationWith(FaultSets({"lo_up"}, {}))
    \/ Return

SpecFrame == InitMigrate /\ [][NextFrame]_vars

(***************************************************************************)
(* SpecLookup: the calls that look the container up by name, with every    *)
(* answer of the engine to the two calls of the lookup: the list or the    *)
(* inspection fails, or is answered with status 404.                       *)
(***************************************************************************)
NextLookup ==
    \/ SpawnWith({PlainImage, FullImage}, FaultSets(LookupPts, {}))
    \/ DestroyWith(FaultSets(LookupPts, {}))
    \/ CleanupWith(FaultSets(LookupPts, {}))
    \/ RebootWith(FaultSets(LookupPts, {}))
    \/ PowerOnWith(FaultSets(LookupPts, {}))
    \/ PowerOffWith(FaultSets(LookupPts, {}))
    \/ PauseWith(FaultSets(LookupPts, {}))
    \/ UnpauseWith(FaultSets(LookupPts, {}))
    \/ RestoreWith(FaultSets(LookupPts, {}))
    \/ MigrateWith(FaultSets(LookupPts, {}))
    \/ ConfirmMigrationWith(FaultSets(LookupPts, {}))
    \/ Return

SpecLookup == Init /\ [][NextLookup]_vars

(***************************************************************************)
(* SpecPoll: the starts of a container whose process appears after any     *)
(* number of inspections, or never, and the destroy of the instance by     *)
(* another caller while a start sleeps between two inspections.            *)
(***************************************************************************)
PidDelays == 0..(PollCap + 1)

\* the world of a call during which the engine reports the process id from
\* inspection number d on (counted from 0)
WorldAfter(d) == [World EXCEPT !.pid_delay = d]

SpawnPoll ==
    \E d \in PidDelays : \E F \in FaultSets({}, {"kill"}) :
        Idle /\ \E w \in {spawn(WorldAfter(d), F, conf, instance, PlainImage, network_info)} :
            Done("spawn", w, PlainImage, None, None)
PowerOnPoll ==
    \E d \in PidDelays : \E F \in FaultSets({}, {"kill"}) :
        Idle /\ \E w \in {power_on(WorldAfter(d), F, conf, instance, network_info)} :
            Done("power_on", w, None, None, None)
RebootPoll ==
    \E d \in PidDelays : \E F \in FaultSets({}, {"kill"}) :
        Idle /\ \E w \in {reboot(WorldAfter(d), F, conf, instance, network_info)} :
            Done("reboot", w, None, None, None)

NextPoll ==
    \/ SpawnPoll
    \/ PowerOnPoll
    \/ RebootPoll
    \/ DestroyWith(NoFaults)
    \/ Wake
    \/ Meanwhile
    \/ Return

SpecPoll == Init /\ [][NextPoll]_vars

(***************************************************************************)
(* SpecFinish: the host a migration ends on.  The archive arrives from the *)
(* source host, and every call that starts a container is made, with every *)
(* failure of the network setup and of the steps of finish_migration.      *)
(***************************************************************************)
\* hostutils.copy_image of the source host puts the archive on this host
ArchiveArrives ==
    /\ Idle
    /\ \A f \in host_files : f.path # TarName(MigrateDest, instance.name)
    /\ host_files' = host_files \cup
           {[path |-> TarName(MigrateDest, instance.name), data |-> "full"]}
    /\ UNCHANGED <<containers, images, host_dirs, dest_files, netns_dir, netns, lo_up,
                   plugged, attached, conf, instance, network_info, last, before, prev>>

NextFinish ==
    \/ ArchiveArrives
    \/ FinishMigrationWith(FaultSets({"load", "inspect_image", "create", "create_none",
                                      "start", "rm_dest"} \cup NetPts, {"kill"}))
    \/ SpawnWith({PlainImage}, FaultSets(NetPts, {"kill"}))
    \/ PowerOnWith(FaultSets(NetPts, {"kill"}))
    \/ RebootWith(FaultSets(NetPts, {"kill"}))
    \/ FinishRevertMigrationWith(FaultSets(NetPts, {"kill"}))
    \/ PowerOffWith(NoFaults)
    \/ DestroyWith(NoFaults)
    \/ Return

SpecFinish == Init /\ [][NextFinish]_vars

(***************************************************************************)
(* What the claims speak of.                                               *)
(***************************************************************************)
VolName == InstanceName \o VolSuffix

\* the containers of engine state e whose name is exactly name
Named(e, name) == {c \in e.containers : c.Names[1] = <<"/">> \o name}

\* the calls that change the engine's containers or images
MutatingEngineCalls ==
    {"create_container", "start", "stop", "kill", "pause", "unpause",
     "remove_container", "commit", "tag", "remove_image", "load_repository_file"}

CallNames == {last.calls[i].call : i \in 1..Len(last.calls)}

\* the positions in the last call's record of the calls named call
Positions(call) == {i \in 1..Len(last.calls) : last.calls[i].call = call}

Ended(ops) == last.op \in ops /\ ~Asleep(last)
ReturnedNormally == last.exc = NoExc

(***************************************************************************)
(* C1.  With no container named as the instance, destroy, reboot,          *)
(* power_on, power_off and cleanup return normally and make no mutating    *)
(* engine call, and the engine's containers are unchanged.                 *)
(* The statement of the claim, which cleanup violates: on the absent path  *)
(* it calls unplug_vifs outside any try, so a failing unplug propagates.   *)
(***************************************************************************)
C1_AbsentIsNoOp ==
    (Ended({"destroy", "reboot", "power_on", "power_off", "cleanup"})
        /\ Named(before, InstanceName) = {})
    => /\ ReturnedNormally
       /\ CallNames \cap MutatingEngineCalls = {}
       /\ containers = before.containers

\* the part of C1 the code keeps: no engine call, containers unchanged, and
\* every call but cleanup returns normally without any call at all
C1_AbsentNoEngineCall ==
    (Ended({"destroy", "reboot", "power_on", "power_off", "cleanup"})
        /\ Named(before, InstanceName) = {})
    => /\ CallNames \cap MutatingEngineCalls = {}
       /\ containers = before.containers
       /\ (last.op # "cleanup" => ReturnedNormally /\ last.calls = <<>>)

(***************************************************************************)
(* C2.  In spawn with a non-empty network_info, when VIF plug or a network *)
(* attachment step fails after the start, the container is killed before   *)
(* the call returns and the call fails with a deploy failure that names    *)
(* the instance and carries the text of the original cause.                *)
(* The statement of the claim, which the code violates when the kill       *)
(* itself fails: the kill's error replaces the cause and the container     *)
(* stays running.                                                          *)
(***************************************************************************)
NetworkSetupFailed == last.caught # NoExc /\ Positions("start") # {}

\* C2, as stated: the container is killed and the deploy failure names the
\* instance and carries the text of the cause
C2_SpawnNetworkFailureKills ==
    (Ended({"spawn"}) /\ network_info # <<>> /\ NetworkSetupFailed)
    => /\ \A c \in Named(Engine, InstanceName) : c.State # "running"
       /\ last.exc.type = "InstanceDeployFailure"
       /\ last.exc.instance_id = InstanceName
       /\ last.exc.msg = <<"Cannot setup network: ">> \o last.caught.msg

\* the part of C2 the code keeps: the kill is always issued after the
\* failure, and when it succeeds the deploy failure is as claimed
C2_KillIssued ==
    (Ended({"spawn"}) /\ network_info # <<>> /\ NetworkSetupFailed)
    => /\ last.calls[Len(last.calls)] = [call |-> "kill", arg |-> IdOf(InstanceName)]
       /\ \/ /\ last.exc = Exc("InstanceDeployFailure",
                               <<"Cannot setup network: ">> \o last.caught.msg,
                               InstanceName)
             /\ \A c \in Named(Engine, InstanceName) : c.State = "exited"
          \/ /\ last.exc = APIError(<<"kill failed">>)
             /\ \A c \in Named(Engine, InstanceName) : c.State = "running"

(***************************************************************************)
(* C3.  In spawn, every failure after the primary container was created    *)
(* and before the network attachment completed, a failure of the engine's  *)
(* start call included, ends with the container killed and a deploy        *)
(* failure that carries the original cause.                                *)
(* The statement of the claim, which the code violates: the start call is  *)
(* outside the try of _start_container, so its error propagates as it is   *)
(* and no kill is made.                                                    *)
(***************************************************************************)
PrimaryCreated ==
    Named(before, InstanceName) = {} /\ Named(Engine, InstanceName) # {}

\* C3, as stated: a spawn that fails once the container exists has killed it
\* and fails with a deploy failure
C3_SpawnFailureAfterCreateKills ==
    (Ended({"spawn"}) /\ PrimaryCreated /\ ~ReturnedNormally)
    => /\ Positions("kill") # {}
       /\ \A c \in Named(Engine, InstanceName) : c.State # "running"
       /\ last.exc.type = "InstanceDeployFailure"

(***************************************************************************)
(* C4.  migrate_disk_and_power_off fails with the resize-down error        *)
(* whenever the target flavor's root_gb or ephemeral_gb is smaller than    *)
(* the instance's, and has then created no staging directory, committed    *)
(* no image, written no archive, stopped no container and transferred      *)
(* nothing: it has made no call at all and engine and host are unchanged.  *)
(***************************************************************************)
ResizeDown ==
    /\ Ended({"migrate_disk_and_power_off"})
    /\ \/ last.flavor.root_gb < last.sizes.root_gb
       \/ last.flavor.ephemeral_gb < last.sizes.ephemeral_gb

\* C4: a resize down fails with the resize-down error before any call
C4_ResizeDownRejectedFirst ==
    ResizeDown
    => /\ last.exc = Exc("InstanceFaultRollback", <<"Unable to resize disk down.">>, None)
       /\ last.calls = <<>>
       /\ Engine = before

\* a resize down of a running instance was asked for
C4_Witness ==
    /\ ResizeDown
    /\ last.flavor.root_gb = last.sizes.root_gb
    /\ last.flavor.ephemeral_gb < last.sizes.ephemeral_gb
    /\ \E c \in Named(before, InstanceName) : c.State = "running"

(***************************************************************************)
(* C5.  When a step of the migration export fails, the error that reaches  *)
(* the caller of migrate_disk_and_power_off is that failure: an error of   *)
(* the rollback never replaces it.                                         *)
(* The statement of the claim, which the code violates on every failure:   *)
(* the rollback call of line 833 passes image_name twice (and reads        *)
(* image_tar_name, unbound before line 821), so the call itself raises     *)
(* inside save_and_reraise_exception, which drops the saved failure.       *)
(***************************************************************************)
ExportStepFailed == Ended({"migrate_disk_and_power_off"}) /\ last.caught # NoExc

\* C5, as stated: the failure of the step is the error of the call
C5_OriginalFailureReachesCaller ==
    ExportStepFailed => last.exc = last.caught

(***************************************************************************)
(* C6.  When a step of the export fails after the image was committed or   *)
(* the source archive was written, the rollback removes the source archive *)
(* and the committed image: after the failed call neither remains.         *)
(* The statement of the claim, which the code violates because of the      *)
(* rollback call of C5: _cleanup_migration never runs.                     *)
(***************************************************************************)
SrcArchive == TarName(MigrateSrc, InstanceName)

\* C6, as stated: no source archive and no committed image after the failure
C6_RollbackRemovesArchiveAndImage ==
    (ExportStepFailed /\ Positions("commit") # {})
    => /\ \A f \in host_files : f.path # SrcArchive
       /\ InstanceName \notin images

(***************************************************************************)
(* C7.  After destroy has returned normally for an instance whose primary  *)
(* container and <name>_vol companion both existed, neither container      *)
(* exists on the engine and none of the three host directories             *)
(* <base-path>/{log,data,other}/<instance-name>_<first-ip> exists,         *)
(* whichever roles were declared when the companion was created.           *)
(***************************************************************************)
FirstIp == IF network_info = <<>> THEN <<>> ELSE <<"ip-of-", network_info[1]>>

VolumeDir(sub) == <<"/os_docker_volume", sub>> \o InstanceName \o <<"_">> \o FirstIp

VolumeDirs == {VolumeDir(sub) : sub \in {"/log/", "/data/", "/other/"}}

DestroyedBoth ==
    /\ Ended({"destroy"})
    /\ ReturnedNormally
    /\ Named(before, InstanceName) # {}
    /\ Named(before, VolName) # {}

\* C7: destroy leaves neither container and none of the three directories
C7_DestroyRemovesBothAndDirs ==
    DestroyedBoth
    => /\ Named(Engine, InstanceName) = {}
       /\ Named(Engine, VolName) = {}
       /\ VolumeDirs \cap host_dirs = {}

\* both containers existed, with the directories of some of the roles only
C7_Witness ==
    /\ DestroyedBoth
    /\ VolumeDir("/other/") \in before.host_dirs
    /\ VolumeDir("/data/") \notin before.host_dirs
    /\ Positions("rmtree") # {}
    /\ network_info # <<>>

(***************************************************************************)
(* C8.  destroy is idempotent: a destroy made right after a destroy that   *)
(* returned normally returns normally, makes no call to the engine, the    *)
(* VIF driver or the host, and leaves containers, host directories and     *)
(* network state exactly as the first one left them.                       *)
(***************************************************************************)
SecondDestroy == Ended({"destroy"}) /\ prev = "destroy"

\* C8: the second destroy returns normally, calls nothing, changes nothing
C8_DestroyIdempotent ==
    SecondDestroy
    => /\ ReturnedNormally
       /\ last.calls = <<>>
       /\ Engine = before

\* the second destroy of an instance that was spawned with its network: the
\* image and the namespace directory of the spawn are still there
C8_Witness ==
    /\ SecondDestroy
    /\ <<"img">> \in images
    /\ netns_dir
    /\ Named(Engine, InstanceName) = {}

(***************************************************************************)
(* C9.  _create_volume_containers returns false and makes no create call   *)
(* when the image metadata declares none of log_volume, data_volume and    *)
(* other_volume; when a role is declared it returns true and creates       *)
(* exactly one network-disabled container named <instance-name>_vol whose  *)
(* bind list has exactly one entry                                         *)
(* <base-path>/<role>/<instance-name>_<first-ip>:<declared-path> for each  *)
(* declared role and none for an undeclared one.                           *)
(*                                                                         *)
(* The routine does not look at the answer of create_container: when the   *)
(* engine answers without an id, the answer spawn guards against for the   *)
(* primary container, the routine returns true and no <instance-name>_vol  *)
(* exists.                                                                 *)
(***************************************************************************)
Declared == {r \in Roles : r \in DOMAIN last.image_meta.properties}

VolCreates ==
    {i \in Positions("create_container") : last.calls[i].arg = VolName}

RoleSub(role) == CASE role = "log_volume" -> "/log/"
                   [] role = "data_volume" -> "/data/"
                   [] role = "other_volume" -> "/other/"

ExpectedBind(role) ==
    VolumeDir(RoleSub(role)) \o <<":">> \o last.image_meta.properties[role]

\* _create_volume_containers was called by the spawn and has returned
VolumeRoutineReturned == Ended({"spawn"}) /\ last.have_vol # None

\* _create_volume_containers was called by the spawn and its create call raised
VolumeCreateRefused ==
    Ended({"spawn"}) /\ last.have_vol = None /\ VolCreates # {}

\* the container of the companion's name is as the claim describes it
AsDeclared(c) ==
    /\ c.Config.network_disabled
    /\ Len(c.Config.binds) = Cardinality(Declared)
    /\ Range(c.Config.binds) = {ExpectedBind(r) : r \in Declared}

\* C9: false and no create without a declared role, else true and one
\* network-disabled <name>_vol with one bind per declared role
C9_VolumeContainerPerDeclaredRoles ==
    VolumeRoutineReturned
    => IF Declared = {}
       THEN last.have_vol = <<FALSE>> /\ VolCreates = {}
       ELSE /\ last.have_vol = <<TRUE>>
            /\ Cardinality(VolCreates) = 1
            /\ Cardinality(Named(Engine, VolName)) = 1
            /\ Named(before, VolName) = {}
            /\ \A c \in Named(Engine, VolName) : AsDeclared(c)

\* the part of C9 the code keeps when the routine returns: false and no
\* create call without a declared role, else true after exactly one create
\* call, and the container, if the engine made one, is the only one of its
\* name and is as declared
C9_ReturnsTrueAfterOneCreateCall ==
    VolumeRoutineReturned
    => IF Declared = {}
       THEN last.have_vol = <<FALSE>> /\ VolCreates = {}
       ELSE /\ last.have_vol = <<TRUE>>
            /\ Cardinality(VolCreates) = 1
            /\ \/ Named(Engine, VolName) = Named(before, VolName)
               \/ /\ Named(before, VolName) = {}
                  /\ Cardinality(Named(Engine, VolName)) = 1
                  /\ \A c \in Named(Engine, VolName) : AsDeclared(c)

\* the part of C9 the code keeps when the engine refuses the create call by
\* raising: the routine returns nothing, the engine's error is the spawn's,
\* and neither the companion nor the primary container is created
C9_RefusedCreatePropagates ==
    VolumeCreateRefused
    => /\ Declared # {}
       /\ Cardinality(VolCreates) = 1
       /\ last.exc.type = "APIError"
       /\ last.calls[Len(last.calls)] = [call |-> "create_container", arg |-> VolName]
       /\ Engine.containers = before.containers

(***************************************************************************)
(* C10.  The CPU-share weight of an instance is unset in mode cpushare and *)
(* is vcpus * 1024 in the modes cpuset and mix, for every vcpu count, and  *)
(* the same value is used when the container is created and when it is     *)
(* started.                                                                *)
(***************************************************************************)
ExpectedShares ==
    IF conf.docker_cpu_mode \in {"cpuset", "mix"}
    THEN <<instance.flavor.vcpus * 1024>>
    ELSE <<>>

\* C10: the weight is unset in cpushare and vcpus * 1024 in cpuset and mix,
\* at create and at start alike
C10_CpuShares ==
    \A c \in Named(Engine, InstanceName) :
        /\ c.Config.cpu_shares = ExpectedShares
        /\ c.State # "created" => /\ c.HostConfig.cpu_shares = ExpectedShares
                                  /\ c.HostConfig.cpu_shares = c.Config.cpu_shares

\* a container of two vcpus was created and started again in mode mix
C10_Witness ==
    /\ Ended({"power_on"})
    /\ ReturnedNormally
    /\ conf.docker_cpu_mode = "mix"
    /\ instance.flavor.vcpus = 2
    /\ \E c \in Named(Engine, InstanceName) :
          c.State = "running" /\ c.HostConfig.cpu_shares = <<2048>>

(***************************************************************************)
(* C11.  A spawn in which every step succeeds makes its calls in this      *)
(* order and in no other: pull the image when the engine does not have it, *)
(* tag it when the image metadata names an image id, ensure the volume     *)
(* container, create the primary container, start it, plug the VIFs, then  *)
(* attach the network; the companion container is therefore created before *)
(* the primary one, and the instance ends in state running.                *)
(***************************************************************************)
CallsOf(call, args) == [i \in 1..Len(args) |-> [call |-> call, arg |-> args[i]]]

Vifs == [i \in 1..Len(network_info) |-> <<network_info[i]>>]

ExpectedPull ==
    IF <<"img">> \in before.images THEN <<>>
    ELSE CallsOf("ensure_tree", << <<"/snapshots">> >>)
             \o CallsOf("load_repository_file", << <<"img">> >>)

ExpectedTag ==
    IF "docker_image_type" \in DOMAIN last.image_meta.properties
          /\ last.image_meta.properties["docker_image_type"] = <<"image">>
    THEN CallsOf("tag", << <<"0123abcd", "ef01", "img">> >>)
    ELSE <<>>

ExpectedCreates ==
    CallsOf("create_container",
            IF Declared = {} THEN <<InstanceName>> ELSE <<VolName, InstanceName>>)

\* the calls of a network attachment that succeeds
ExpectedAttach ==
    (IF before.netns_dir THEN <<>> ELSE CallsOf("mkdir", << <<"/var/run/netns">> >>))
        \o CallsOf("inspect_container",
                   [i \in 1..last.inspects |-> <<"id-">> \o InstanceName])
        \o CallsOf("ln", << <<"/proc/", "pid-", "id-">> \o InstanceName
                               \o <<"/ns/net", "/var/run/netns/", "id-">>
                               \o InstanceName >>)
        \o CallsOf("lo_up", << <<"id-">> \o InstanceName >>)
        \o CallsOf("attach", Vifs)

\* the calls of a start that succeeds
ExpectedStart ==
    CallsOf("start", << <<"id-">> \o InstanceName >>)
        \o (IF network_info = <<>> THEN <<>>
            ELSE CallsOf("plug", Vifs) \o ExpectedAttach)

Running(e) ==
    /\ Named(e, InstanceName) # {}
    /\ \A c \in Named(e, InstanceName) : c.State = "running"

\* C11: the calls of a successful spawn are exactly the expected ones, in
\* the expected order, and the instance is running
C11_SpawnOrder ==
    (Ended({"spawn"}) /\ ReturnedNormally)
    => /\ last.calls = ExpectedPull \o ExpectedTag \o ExpectedCreates \o ExpectedStart
       /\ Running(Engine)

\* a spawn that pulls the image, creates the companion and attaches two VIFs
C11_Witness ==
    /\ Ended({"spawn"})
    /\ ReturnedNormally
    /\ Declared # {}
    /\ Len(network_info) = 2
    /\ Positions("load_repository_file") # {}
    /\ Positions("attach") # {}

(***************************************************************************)
(* C12.  destroy of an existing instance makes its steps in this order:    *)
(* stop the container, remove the container, tear down the network (the    *)
(* namespace teardown, then the VIF unplugs), and only then destroy the    *)
(* volume container and its host directories.                              *)
(***************************************************************************)
PrimaryId == <<"id-">> \o InstanceName

\* the place of a call among the steps of destroy
DestroyStep(c) ==
    CASE c.call \in {"stop", "unpause"} -> 1
      [] c.call = "remove_container" /\ c.arg = PrimaryId -> 2
      [] c.call = "teardown_network" -> 3
      [] c.call = "unplug" -> 4
      [] c.call = "remove_container" /\ c.arg = VolName -> 5
      [] c.call = "rmtree" -> 6
      [] OTHER -> 0

Paused(e) == \E c \in Named(e, InstanceName) : c.State = "paused"

ExpectedStop ==
    IF Paused(before)
    THEN CallsOf("stop", <<PrimaryId>>) \o CallsOf("unpause", <<PrimaryId>>)
             \o CallsOf("stop", <<PrimaryId>>)
    ELSE CallsOf("stop", <<PrimaryId>>)

\* the teardown, then the unplugs of the VIFs in their order
ExpectedTeardown == CallsOf("teardown_network", <<PrimaryId>>) \o CallsOf("unplug", Vifs)

OrderedDirs == <<VolumeDir("/log/"), VolumeDir("/data/"), VolumeDir("/other/")>>

ExpectedVolumeRemoval ==
    IF Named(before, VolName) = {} THEN <<>>
    ELSE CallsOf("remove_container", <<VolName>>)
             \o CallsOf("rmtree", SelectSeq(OrderedDirs, LAMBDA d : d \in before.host_dirs))

DestroyedExisting == Ended({"destroy"}) /\ Named(before, InstanceName) # {}

\* C12: the steps of every destroy follow one another in the order of the
\* claim, and a destroy that returns normally has made all of them, the
\* network teardown up to the call of it that failed
C12_DestroyOrder ==
    DestroyedExisting
    => /\ \A i, j \in 1..Len(last.calls) :
             i < j => /\ DestroyStep(last.calls[i]) > 0
                      /\ DestroyStep(last.calls[i]) <= DestroyStep(last.calls[j])
       /\ ReturnedNormally
          => \E n \in 1..Len(ExpectedTeardown) :
                last.calls = ExpectedStop \o CallsOf("remove_container", <<PrimaryId>>)
                                 \o SubSeq(ExpectedTeardown, 1, n)
                                 \o ExpectedVolumeRemoval

\* a paused instance with a companion and two VIFs is destroyed, every step
\* being made
C12_Witness ==
    /\ DestroyedExisting
    /\ ReturnedNormally
    /\ Paused(before)
    /\ Len(network_info) = 2
    /\ Cardinality(Positions("unplug")) = 2
    /\ Positions("rmtree") # {}

(***************************************************************************)
(* C13.  pause and unpause each make one direct engine call; every failure *)
(* of that call, the case where no container exists for the instance       *)
(* included, reaches the caller as a fatal error that names the instance,  *)
(* never as a silent no-op and never as the raw engine error.              *)
(***************************************************************************)
PauseText == [pause |-> "Cannot pause container: ",
              unpause |-> "Cannot unpause container: "]

PausedTo == [pause |-> "paused", unpause |-> "running"]

\* C13: one engine call, named as the operation; the call either changes
\* the state of the container or ends with the fatal error of the instance
C13_PauseUnpauseWrapFailures ==
    Ended({"pause", "unpause"})
    => /\ Len(last.calls) = 1
       /\ last.calls[1].call = last.op
       /\ last.calls[1].arg = IF Named(before, InstanceName) = {} THEN <<>> ELSE PrimaryId
       /\ IF ReturnedNormally
          THEN /\ Named(Engine, InstanceName) # {}
               /\ \A c \in Named(Engine, InstanceName) : c.State = PausedTo[last.op]
               /\ containers # before.containers
          ELSE /\ last.exc.type = "NovaException"
               /\ last.exc.instance_id = InstanceName
               /\ Len(last.exc.msg) > 1
               /\ Head(last.exc.msg) = PauseText[last.op]
               /\ containers = before.containers

\* pause of an instance that has no container
C13_Witness ==
    /\ Ended({"pause"})
    /\ Named(before, InstanceName) = {}
    /\ last.exc.type = "NovaException"
    /\ last.exc.msg = <<"Cannot pause container: ", "No such container: ">>

(***************************************************************************)
(* C14.  Across any sequence of lifecycle calls on one instance, plug and  *)
(* unplug of a VIF are invoked in pairs: between two plug calls for the    *)
(* same VIF there is always an unplug call.                                *)
(* The statement of the claim, which the code violates: power_off stops    *)
(* the container without unplugging, and power_on (as every start) plugs   *)
(* the VIFs whether or not they are plugged already.                       *)
(* Where no plug and no unplug fails, the VIFs in plugged                  *)
(* are those whose latest call was a plug.                                 *)
(***************************************************************************)
UnpluggedBefore(i) ==
    \E j \in 1..(i - 1) :
        last.calls[j] = [call |-> "unplug", arg |-> last.calls[i].arg]

\* C14, as stated: a VIF still plugged is unplugged before it is plugged again
C14_PlugUnplugPaired ==
    \A i \in Positions("plug") :
        last.calls[i].arg[1] \in before.plugged => UnpluggedBefore(i)

(***************************************************************************)
(* C15.  The companion container <instance-name>_vol and its host          *)
(* directories are removed only by destroy: none of cleanup, reboot,       *)
(* power_on, power_off, pause, unpause, restore,                           *)
(* migrate_disk_and_power_off, confirm_migration and                       *)
(* finish_revert_migration removes the companion container or any of its   *)
(* host directories, however the call ends.                                *)
(***************************************************************************)
OtherThanDestroy ==
    {"cleanup", "reboot", "power_on", "power_off", "pause", "unpause", "restore",
     "migrate_disk_and_power_off", "confirm_migration", "finish_revert_migration"}

\* C15: the companion and its directories are as they were before the call
C15_CompanionOnlyRemovedByDestroy ==
    Ended(OtherThanDestroy)
    => /\ Named(Engine, VolName) = Named(before, VolName)
       /\ VolumeDirs \cap before.host_dirs \subseteq host_dirs

\* confirm_migration removes the primary container of an instance that has
\* a companion, and deletes the source archive
C15_Witness ==
    /\ Ended({"confirm_migration"})
    /\ ReturnedNormally
    /\ Named(before, VolName) # {}
    /\ Named(before, InstanceName) # {}
    /\ Named(Engine, InstanceName) = {}
    /\ VolumeDirs \cap before.host_dirs # {}
    /\ Positions("rm") # {}

(***************************************************************************)
(* C16.  Network attachment makes its steps in a fixed order: ensure the   *)
(* netns mount directory, discover the container's process id, symlink     *)
(* that process's network namespace under the container id, bring the      *)
(* loopback up inside the namespace, and only then attach each VIF, in the *)
(* order of network_info; no VIF is attached before the loopback is up and *)
(* no symlink is made before a non-zero process id is known.               *)
(***************************************************************************)
AttachCalls == {"mkdir", "inspect_container", "ln", "lo_up", "attach"}

Starts == {"spawn", "power_on", "reboot", "finish_revert_migration"}

\* the calls of the network attachment among the calls of the last call
Attachment == SelectSeq(last.calls, LAMBDA c : c.call \in AttachCalls)

\* C16: the attachment's calls are the expected ones in the expected order,
\* up to the one that failed; a VIF is attached only with the loopback up
C16_AttachOrder ==
    Ended(Starts)
    => /\ \E n \in 0..Len(ExpectedAttach) : Attachment = SubSeq(ExpectedAttach, 1, n)
       /\ Positions("attach") # {} => PrimaryId \in lo_up /\ PrimaryId \in netns
       /\ Positions("ln") # {} => last.inspects > 0
       /\ (ReturnedNormally /\ network_info # <<>> /\ Named(Engine, InstanceName) # {})
          => Attachment = ExpectedAttach

\* two VIFs are attached after the process id was found at the last poll
C16_Witness ==
    /\ Ended(Starts)
    /\ ReturnedNormally
    /\ Cardinality(Positions("attach")) = 2
    /\ Positions("mkdir") # {}
    /\ last.inspects > 1

(***************************************************************************)
(* C17.  The process-id discovery poll always terminates: it inspects the  *)
(* container once per iteration, returns the first non-zero process id it  *)
(* observes, and otherwise gives up with no id after a hard cap of about   *)
(* 15 iterations (PollCap + 1 inspections, each followed by a one-second   *)
(* wait), whatever the engine answers.                                     *)
(***************************************************************************)
\* the poll was made: the call reached the discovery of the process id
Polled == Ended(Starts) /\ last.inspects > 0

PidFound == Positions("ln") # {}

\* C17: a call asleep in the poll has made as many inspections as waits, at
\* most PollCap + 1, and goes on with the iteration after them; and with the
\* process id reported from inspection d on, the poll that has ended made
\* d + 1 inspections and d waits and returned the id; when d is beyond the
\* cap, or the container was destroyed by another caller during a wait, it
\* made PollCap + 1 inspections and as many waits and returned none
C17_PollTerminates ==
    /\ Asleep(last)
       => /\ last.frame[1].n \in 1..(PollCap + 1)
          /\ last.sleeps = last.frame[1].n
          /\ last.inspects = last.frame[1].n
    /\ Polled
       => /\ last.inspects <= PollCap + 1
          /\ last.sleeps <= PollCap + 1
          /\ Cardinality(Positions("inspect_container")) = last.inspects
          /\ IF last.pid_delay <= PollCap /\ ~last.others
             THEN /\ last.inspects = last.pid_delay + 1
                  /\ last.sleeps = last.pid_delay
                  /\ PidFound
             ELSE /\ last.inspects = PollCap + 1
                  /\ last.sleeps = PollCap + 1
                  /\ ~PidFound

\* the process id appears at the seventh inspection
C17_Witness ==
    /\ Polled
    /\ last.pid_delay = 6
    /\ last.inspects = 7
    /\ PidFound

(***************************************************************************)
(* C18.  When the container's process id never becomes non-zero during     *)
(* the poll, the network attachment fails with a fatal error without       *)
(* creating the namespace symlink, bringing the loopback up or attaching a *)
(* VIF; inside a start (spawn, power_on, reboot) the container is then     *)
(* killed and a deploy failure is raised.                                  *)
(* The statement of the claim, which the code violates when the kill       *)
(* fails, as it does for a container whose process is not running: the     *)
(* kill's error is raised in place of the deploy failure (see C2).         *)
(***************************************************************************)
PidNeverSeen == Polled /\ last.pid_delay > PollCap

\* C18, as stated: no symlink, no loopback, no attach; the container is
\* killed and the call fails with the deploy failure of the instance
C18_NoPidFailsAndKills ==
    PidNeverSeen
    => /\ CallNames \cap {"ln", "lo_up", "attach"} = {}
       /\ last.caught.type = "RuntimeError"
       /\ \A c \in Named(Engine, InstanceName) : c.State # "running"
       /\ last.exc.type = "InstanceDeployFailure"
       /\ last.exc.instance_id = InstanceName

\* the part of C18 the code keeps: the attachment stops at the poll with the
\* fatal error, and the kill is issued
C18_NoPidStopsAttachment ==
    PidNeverSeen
    => /\ CallNames \cap {"ln", "lo_up", "attach"} = {}
       /\ last.caught = Exc("RuntimeError",
                            <<"Cannot find any PID under container \"">> \o PrimaryId
                                \o <<"\"">>, <<>>)
       /\ last.calls[Len(last.calls)] = [call |-> "kill", arg |-> PrimaryId]
       /\ ReturnedNormally = FALSE

(***************************************************************************)
(* C19.  When the network attachment fails, the failure path kills the     *)
(* container but never removes it: after the failed spawn, power_on or     *)
(* reboot the primary container still exists on the engine, in a stopped   *)
(* state, and its removal is left to a later destroy or cleanup.           *)
(* The statement of the claim, which the code violates when the kill       *)
(* fails: the container then exists but is still running (see C2).         *)
(***************************************************************************)
AttachFailed == Ended(Starts) /\ NetworkSetupFailed

\* C19, as stated: the container is kept, and it is stopped
C19_FailedAttachKeepsStoppedContainer ==
    AttachFailed
    => /\ Positions("remove_container") = {}
       /\ Named(Engine, InstanceName) # {}
       /\ \A c \in Named(Engine, InstanceName) : c.State = "exited"

\* the part of C19 the code keeps: the container is never removed by the
\* failure path, and it is stopped whenever the kill succeeds
C19_FailedAttachNeverRemoves ==
    AttachFailed
    => /\ Positions("remove_container") = {}
       /\ Positions("kill") # {}
       /\ Named(Engine, InstanceName) # {}
       /\ {c.Id : c \in Named(Engine, InstanceName)}
             = {c.Id : c \in Named(before, InstanceName)} \cup {PrimaryId}
       /\ last.exc.type = "InstanceDeployFailure"
          => \A c \in Named(Engine, InstanceName) : c.State = "exited"

(***************************************************************************)
(* C20.  reboot of an existing instance makes stop, then the network       *)
(* teardown, then start (which plugs and attaches the network again), in   *)
(* that order and on the same container id; the container is never removed *)
(* or created again by reboot, and when all steps succeed the instance     *)
(* ends in state running.                                                  *)
(***************************************************************************)
\* the place of a call among the steps of reboot
RebootStep(c) ==
    CASE c.call \in {"stop", "unpause"} -> 1
      [] c.call \in {"teardown_network", "unplug"} -> 2
      [] c.call = "start" -> 3
      [] c.call \in {"plug"} \cup AttachCalls -> 4
      [] c.call = "kill" -> 5
      [] OTHER -> 0

OnContainer == {"stop", "unpause", "teardown_network", "start", "kill"}

RebootedExisting == Ended({"reboot"}) /\ Named(before, InstanceName) # {}

\* C20: the steps follow one another in the order of the claim, all on the
\* container that was there, which is still there; a reboot that returns
\* normally has made all of them (the teardown up to the call of it that
\* failed) and leaves the instance running
C20_RebootOrder ==
    RebootedExisting
    => /\ \A i, j \in 1..Len(last.calls) :
             i <= j => /\ RebootStep(last.calls[i]) > 0
                       /\ RebootStep(last.calls[i]) <= RebootStep(last.calls[j])
       /\ \A i \in 1..Len(last.calls) :
             last.calls[i].call \in OnContainer => last.calls[i].arg = PrimaryId
       /\ {c.Id : c \in Named(Engine, InstanceName)} = {PrimaryId}
       /\ {c.Id : c \in Named(before, InstanceName)} = {PrimaryId}
       /\ {c.Config : c \in Named(Engine, InstanceName)}
             = {c.Config : c \in Named(before, InstanceName)}
       /\ ReturnedNormally
          => /\ \E n \in 1..Len(ExpectedTeardown) :
                   last.calls = ExpectedStop \o SubSeq(ExpectedTeardown, 1, n)
                                    \o ExpectedStart
             /\ Running(Engine)

\* a paused instance with two VIFs is rebooted, every step being made
C20_Witness ==
    /\ RebootedExisting
    /\ ReturnedNormally
    /\ Paused(before)
    /\ Cardinality(Positions("unplug")) = 2
    /\ Cardinality(Positions("attach")) = 2

(***************************************************************************)
(* C21.  cleanup unplugs every VIF of network_info on every path: when the *)
(* container exists it removes the container and unplugs the VIFs, and     *)
(* when the container is absent it still unplugs the VIFs; in both cases   *)
(* it removes no container other than the instance's primary one.          *)
(* The statement of the claim, which the code violates: with the container *)
(* present the unplug follows teardown_network inside one try, so a        *)
(* failing teardown skips every unplug, and a failing unplug skips the     *)
(* VIFs after it, while cleanup returns normally.                          *)
(***************************************************************************)
CleanedUp == Ended({"cleanup"}) /\ ReturnedNormally

\* the VIFs for which the last call asked the VIF driver to unplug
UnplugAsked == {last.calls[i].arg : i \in Positions("unplug")}

OnlyPrimaryRemoved ==
    /\ \A i \in Positions("remove_container") : last.calls[i].arg = PrimaryId
    /\ \A c \in before.containers :
          c \notin Named(before, InstanceName) => c \in containers

\* C21, as stated: a cleanup that returns has asked for the unplug of every
\* VIF, has removed the container that was there, and no other one
C21_CleanupUnplugsEveryVif ==
    CleanedUp
    => /\ UnplugAsked = Range(Vifs)
       /\ Named(Engine, InstanceName) = {}
       /\ Named(before, InstanceName) # {} => Positions("remove_container") # {}
       /\ OnlyPrimaryRemoved

\* the part of C21 the code keeps: no other container is removed by any
\* cleanup, the present container is removed by a cleanup that returns, and
\* every VIF is unplugged unless a step of the network teardown failed
C21_CleanupRemovesOnlyPrimary ==
    Ended({"cleanup"})
    => /\ OnlyPrimaryRemoved
       /\ ReturnedNormally
          => /\ Named(Engine, InstanceName) = {}
             /\ Named(before, InstanceName) # {} => Positions("remove_container") # {}
             /\ \E n \in 0..Len(ExpectedTeardown) :
                   /\ SubSeq(last.calls, Len(last.calls) - n + 1, Len(last.calls))
                         = SubSeq(ExpectedTeardown, 1, n)
                   /\ (n < Len(ExpectedTeardown) /\ Named(before, InstanceName) # {})
                         => plugged = before.plugged \ {last.calls[i].arg[1] :
                                                           i \in Positions("unplug") \ {Len(last.calls)}}

(***************************************************************************)
(* C22.  Stopping a container retries exactly once, after an explicit      *)
(* unpause, when and only when the engine rejects the first stop with the  *)
(* unpause-required error; any other stop error propagates to the caller   *)
(* with no unpause and no retry.  Consequently power_off or destroy on a   *)
(* paused container leaves it stopped, not paused.                         *)
(***************************************************************************)
Stops == {"power_off", "destroy", "reboot"}

StoppedExisting == Ended(Stops) /\ Named(before, InstanceName) # {}

\* the first stop was rejected for another reason than the pause
OtherStopError == last.exc = APIError(<<"stop failed">>) /\ Len(last.calls) = 1

\* C22: the first call is a stop; a paused container, unless the stop fails
\* otherwise, is answered by one unpause and, when that succeeds, one more
\* stop, and no other stop or unpause is made; a container that is not
\* paused, or a stop that fails otherwise, sees neither unpause nor retry,
\* and the other failure reaches the caller with the engine unchanged;
\* after a power_off or destroy that returns no paused or running primary
\* container is left
C22_StopRetriesOnceAfterUnpause ==
    StoppedExisting
    => /\ last.calls[1] = [call |-> "stop", arg |-> PrimaryId]
       /\ Cardinality(Positions("stop")) <= 2
       /\ Cardinality(Positions("unpause")) <= 1
       /\ Positions("unpause") # {}
          <=> (Paused(before) /\ ~OtherStopError)
       /\ Positions("unpause") # {}
          => /\ last.calls[2] = [call |-> "unpause", arg |-> PrimaryId]
             /\ last.exc # APIError(<<"unpause failed">>)
                => /\ Len(last.calls) >= 3
                   /\ last.calls[3] = [call |-> "stop", arg |-> PrimaryId]
       /\ Positions("unpause") = {} => Cardinality(Positions("stop")) = 1
       /\ OtherStopError => Engine = before
       /\ (Ended({"power_off", "destroy"}) /\ ReturnedNormally)
          => \A c \in Named(Engine, InstanceName) : c.State \notin {"paused", "running"}
       /\ (Ended({"power_off"}) /\ ReturnedNormally /\ Paused(before))
          => /\ Named(Engine, InstanceName) # {}
             /\ \A c \in Named(Engine, InstanceName) : c.State = "exited"

\* a paused instance is powered off: stop, unpause, stop, and it is exited
C22_Witness ==
    /\ Ended({"power_off"})
    /\ ReturnedNormally
    /\ Paused(before)
    /\ last.calls = CallsOf("stop", <<PrimaryId>>) \o CallsOf("unpause", <<PrimaryId>>)
                        \o CallsOf("stop", <<PrimaryId>>)
    /\ \A c \in Named(Engine, InstanceName) : c.State = "exited"

(***************************************************************************)
(* C23.  The identity lookup for an instance name N returns a container    *)
(* only if that container's name, after stripping the engine's leading     *)
(* path character, equals N exactly; a container whose name merely         *)
(* contains or starts with N (for example N_vol) is never returned, so no  *)
(* lifecycle operation on N ever stops, removes, kills or starts such a    *)
(* container through the resolved id.                                      *)
(***************************************************************************)
\* names that contain, start with, or are contained in one another
LookupNames == {InstanceName, ForeignName, VolName, <<"v">>, InstanceName \o <<"_">>}

\* the answers of the engine to the two calls of the lookup
LookupFaults == {{}} \cup {{pt} : pt \in LookupPts}

\* the engine calls that take the resolved container id
ById == {"start", "stop", "kill", "pause", "unpause", "teardown_network",
         "inspect_container", "lo_up"}

\* C23: in every state the lookup of a name answers a container of exactly
\* that name or nothing; every call made on a resolved id names the primary
\* container (or nothing, when pause and unpause pass the empty id on); the
\* only other container a call removes is the companion, by its own name;
\* and the containers whose names extend N are never stopped, started,
\* killed or removed by a call on N's id
C23_LookupIsExact ==
    /\ \A name \in LookupNames : \A F \in LookupFaults :
          LET found == _find_container_by_name(World, F, name).ret IN
          /\ Named(Engine, name) = {} => found = None
          /\ found # None => found.Names[1] = <<"/">> \o name
          /\ Named(Engine, name) # {} /\ F = {} => found # None
    /\ \A i \in 1..Len(last.calls) :
          /\ last.calls[i].call \in ById => last.calls[i].arg \in {PrimaryId, None}
          /\ last.calls[i].call = "remove_container"
             => \/ last.calls[i].arg = PrimaryId
                \/ last.calls[i].arg = VolName /\ Ended({"destroy"})
    /\ ForeignContainer \in containers
    /\ \A c \in Named(Engine, VolName) : c.State = "created"

\* the companion vm_vol and the foreign vm2 are on the engine and vm is
\* not: power_off resolves nothing and makes no call
C23_Witness ==
    /\ Ended({"power_off", "destroy", "reboot"})
    /\ Named(before, InstanceName) = {}
    /\ Named(before, VolName) # {}
    /\ Named(before, ForeignName) # {}
    /\ last.calls = <<>>
    /\ Engine = before

(***************************************************************************)
(* C24.  When the resize-down check passes, migrate_disk_and_power_off     *)
(* performs in order: commit the container to an image tagged with the     *)
(* instance name, write the image archive to the source staging path       *)
(* <snapshot-dir>/migrate_src/<name>.tar, power the instance off, then     *)
(* transfer the archive to the destination host; the instance is not       *)
(* stopped before the archive is fully written and nothing is transferred  *)
(* before the instance is stopped.                                         *)
(***************************************************************************)
Exported == Ended({"migrate_disk_and_power_off"}) /\ ~ResizeDown

\* the place of a call among the steps of the export
ExportStep(c) ==
    CASE c.call = "mkdir" /\ c.arg = MigrateSrc -> 1
      [] c.call = "commit" /\ c.arg = InstanceName -> 2
      [] c.call \in {"open", "write"} /\ c.arg = SrcArchive -> 3
      [] c.call \in {"stop", "unpause"} /\ c.arg = PrimaryId -> 4
      [] c.call = "copy_image" /\ c.arg = MigrateSrc -> 5
      [] OTHER -> 0

ArchiveWritten == [path |-> SrcArchive, data |-> "full"] \in host_files

\* C24: the calls of every export are steps of the claim in its order; a
\* stop is made only with the archive fully written, a transfer only with
\* the instance stopped; an export that returns has made every step and
\* the archive is on the destination host
C24_ExportOrder ==
    Exported
    => /\ \A i, j \in 1..Len(last.calls) :
             i <= j => /\ ExportStep(last.calls[i]) > 0
                       /\ ExportStep(last.calls[i]) <= ExportStep(last.calls[j])
       /\ Positions("stop") # {}
          => /\ ArchiveWritten
             /\ Positions("write") # {}
             /\ InstanceName \in images
       /\ Positions("copy_image") # {}
          => /\ Positions("stop") # {}
             /\ \A c \in Named(Engine, InstanceName) : c.State \notin {"running", "paused"}
       /\ ReturnedNormally
          => /\ last.calls = CallsOf("mkdir", <<MigrateSrc>>)
                                \o CallsOf("commit", <<InstanceName>>)
                                \o CallsOf("open", <<SrcArchive>>)
                                \o CallsOf("write", <<SrcArchive>>)
                                \o ExpectedStop
                                \o CallsOf("copy_image", <<MigrateSrc>>)
             /\ TarName(MigrateDest, InstanceName) \in dest_files

\* a running instance is exported, every step being made
C24_Witness ==
    /\ Exported
    /\ ReturnedNormally
    /\ \E c \in Named(before, InstanceName) : c.State = "running"
    /\ \A c \in Named(Engine, InstanceName) : c.State = "exited"
    /\ ArchiveWritten
    /\ TarName(MigrateDest, InstanceName) \in dest_files

(***************************************************************************)
(* C25.  finish_migration on the destination host performs in order: load  *)
(* the transferred archive as an image, build the container spec, create   *)
(* the container, start it, and only after a successful start delete the   *)
(* transferred archive; after it returns normally the container is running *)
(* and the archive <snapshot-dir>/migrate_dest/<name>.tar no longer        *)
(* exists.                                                                 *)
(***************************************************************************)
DestArchive == TarName(MigrateDest, InstanceName)

Finished == Ended({"finish_migration"})

\* the place of a call among the steps of finish_migration
FinishStep(c) ==
    CASE c.call = "load_repository_file" /\ c.arg = InstanceName -> 1
      [] c.call = "create_container" /\ c.arg = InstanceName -> 2
      [] c.call = "start" /\ c.arg = PrimaryId -> 3
      [] c.call \in {"plug"} \cup AttachCalls -> 4
      [] c.call = "kill" /\ c.arg = PrimaryId -> 5
      [] c.call = "rm" /\ c.arg = DestArchive -> 6
      [] OTHER -> 0

\* the container as _create_container_args and _start_container make it
BuiltAsPlanned ==
    \A c \in Named(Engine, InstanceName) :
        /\ c.Config.cpu_shares = _get_cpu_shares(conf, instance)
        /\ c.Config.network_mode = <<"none">>
        /\ c.Config.privileged

\* C25: the calls of every finish_migration are steps of the claim in its
\* order; the archive is deleted only after a start that succeeded, network
\* setup included, and is otherwise left as it was; a finish_migration that
\* returns has made every step, the container is running, built as planned
\* from the loaded image, and the archive is gone
C25_FinishOrder ==
    Finished
    => /\ \A i, j \in 1..Len(last.calls) :
             i <= j => /\ FinishStep(last.calls[i]) > 0
                       /\ FinishStep(last.calls[i]) <= FinishStep(last.calls[j])
       /\ Positions("rm") # {}
          => /\ Running(Engine)
             /\ last.caught = NoExc
             /\ Positions("kill") = {}
             /\ SubSeq(last.calls, 1, Len(last.calls) - 1)
                   = CallsOf("load_repository_file", <<InstanceName>>)
                         \o CallsOf("create_container", <<InstanceName>>)
                         \o ExpectedStart
       /\ Positions("rm") = {} => host_files = before.host_files
       /\ Positions("create_container") # {} => InstanceName \in images
       /\ ReturnedNormally
          => /\ last.calls[Len(last.calls)] = [call |-> "rm", arg |-> DestArchive]
             /\ Running(Engine)
             /\ BuiltAsPlanned
             /\ \A f \in host_files : f.path # DestArchive
             /\ \E f \in before.host_files : f.path = DestArchive

\* the archive has arrived and finish_migration returns with two VIFs set up
C25_Witness ==
    /\ Finished
    /\ ReturnedNormally
    /\ Cardinality(Positions("attach")) = 2
    /\ \E f \in before.host_files : f.path = DestArchive
    /\ \A f \in host_files : f.path # DestArchive
    /\ Named(before, InstanceName) = {}
    /\ Running(Engine)

(***************************************************************************)
(* C26.  After confirm_migration returns normally, the source-side         *)
(* container of the instance no longer exists and its network state has    *)
(* been torn down, and, whenever the delete_migration_source option is     *)
(* enabled, the source archive <snapshot-dir>/migrate_src/<name>.tar has   *)
(* been deleted; when the option is disabled the archive is left           *)
(* untouched.                                                              *)
(* The statement of the claim, which the code violates: _cleanup_resize    *)
(* returns at once when the container is absent, before it reads the       *)
(* option, so the archive of an instance whose container is already gone   *)
(* is never deleted; and the network teardown is the one of C21.           *)
(***************************************************************************)
ConfirmReturned == Ended({"confirm_migration"}) /\ ReturnedNormally

ArchiveThere(e) == \E f \in e.host_files : f.path = SrcArchive

\* C26, as stated
C26_ConfirmDeletesSource ==
    ConfirmReturned
    => /\ Named(Engine, InstanceName) = {}
       /\ PrimaryId \notin netns
       /\ plugged \cap Range(network_info) = {}
       /\ conf.delete_migration_source => ~ArchiveThere(Engine)
       /\ ~conf.delete_migration_source => host_files = before.host_files

\* the part of C26 the code keeps: with the container present, it is
\* removed, the teardown is asked for, and the archive is deleted exactly
\* when the option is enabled; with the option disabled, or the container
\* absent, the host's files are untouched
C26_ConfirmOfPresentContainer ==
    ConfirmReturned
    => /\ Named(Engine, InstanceName) = {}
       /\ Named(before, InstanceName) # {}
          => /\ Positions("remove_container") # {}
             /\ Positions("teardown_network") # {}
             /\ conf.delete_migration_source
                => /\ ~ArchiveThere(Engine)
                   /\ last.calls[Len(last.calls)] = [call |-> "rm", arg |-> SrcArchive]
       /\ (~conf.delete_migration_source \/ Named(before, InstanceName) = {})
          => /\ host_files = before.host_files
             /\ Positions("rm") = {}

(***************************************************************************)
(* C27.  After any destroy that returns normally, no companion container   *)
(* named <instance-name>_vol remains on the engine, in every reachable     *)
(* state, including the state left by a spawn that created the companion   *)
(* container and then failed to create the primary container.              *)
(* The statement of the claim, which the code violates in that very state: *)
(* destroy returns at once when the primary container is absent and never  *)
(* reaches _destroy_volume_container.                                      *)
(***************************************************************************)
DestroyReturned == Ended({"destroy"}) /\ ReturnedNormally

\* C27, as stated
C27_NoCompanionAfterDestroy ==
    DestroyReturned => Named(Engine, VolName) = {}

\* the part of C27 the code keeps: the companion is gone after the destroy
\* of an instance whose primary container was there; without the primary
\* container destroy makes no call and leaves the engine and the host as
\* they were, companion included
C27_CompanionSharesFateOfPrimary ==
    DestroyReturned
    => /\ Named(before, InstanceName) # {} => Named(Engine, VolName) = {}
       /\ Named(before, InstanceName) = {} => (last.calls = <<>> /\ Engine = before)

(***************************************************************************)
(* C28.  A failure of namespace teardown or of VIF unplug inside the       *)
(* network-teardown step is never propagated to the caller and never       *)
(* aborts the enclosing operation: destroy still goes on to destroy the    *)
(* companion container and its directories, reboot still restarts the      *)
(* container, and confirm_migration still reaches its archive-deletion     *)
(* step.                                                                   *)
(***************************************************************************)
\* a step of the network teardown raised in the last call
TeardownStepFailed ==
    /\ Ended({"destroy", "reboot", "confirm_migration"})
    /\ last.warned # NoExc

TeardownErrors == {<<"teardown failed">>, <<"unplug failed">>}

\* the last position of a call of the network teardown
TeardownEnd ==
    CHOOSE i \in Positions("teardown_network") \cup Positions("unplug") :
        \A j \in Positions("teardown_network") \cup Positions("unplug") : j <= i

\* C28: the failure is one of the two steps', it is not the error of the
\* call, and the step that follows the teardown is made: the removal of
\* the companion and of its directories, after which destroy returns with
\* neither left; the start of the container, which runs unless the start
\* fails itself; the deletion of the archive when the option asks for it
C28_TeardownFailureSwallowed ==
    TeardownStepFailed
    => /\ last.warned.msg \in TeardownErrors
       /\ last.exc.msg \notin TeardownErrors
       /\ Ended({"destroy"})
          => /\ ReturnedNormally
             /\ SubSeq(last.calls, TeardownEnd + 1, Len(last.calls)) = ExpectedVolumeRemoval
             /\ Named(Engine, VolName) = {}
             /\ VolumeDirs \cap host_dirs = {}
       /\ Ended({"reboot"})
          => /\ TeardownEnd < Len(last.calls)
             /\ last.calls[TeardownEnd + 1] = [call |-> "start", arg |-> PrimaryId]
             /\ ReturnedNormally => Running(Engine)
       /\ (Ended({"confirm_migration"}) /\ conf.delete_migration_source)
          => /\ last.calls[Len(last.calls)] = [call |-> "rm", arg |-> SrcArchive]
             /\ TeardownEnd = Len(last.calls) - 1
             /\ ReturnedNormally => ~ArchiveThere(Engine)

\* the unplug of the first of two VIFs fails in the destroy of an instance
\* with a companion, which is removed with its directories
C28_Witness ==
    /\ TeardownStepFailed
    /\ Ended({"destroy"})
    /\ last.warned.msg = <<"unplug failed">>
    /\ Len(network_info) = 2
    /\ Named(before, VolName) # {}
    /\ VolumeDirs \cap before.host_dirs # {}
    /\ Positions("rmtree") # {}
    /\ Named(Engine, VolName) = {}
    /\ ReturnedNormally

(***************************************************************************)
(* C29.  If the engine's stop call fails during destroy with an error      *)
(* other than the unpause-required one, destroy fails with that error and  *)
(* has changed nothing else: the primary container is not removed, the     *)
(* network is not torn down, and the companion container and its host      *)
(* directories are left in place.                                          *)
(***************************************************************************)
\* a stop of the last destroy, the first one or the one after the unpause,
\* failed with another error
DestroyStopFailed ==
    /\ Ended({"destroy"})
    /\ Positions("stop") # {}
    /\ last.exc = APIError(<<"stop failed">>)

\* C29: the failed stop is the last call of destroy, nothing was removed or
\* torn down, the companion and every directory are where they were; the
\* engine differs from before at most by the unpause before the second stop
C29_StopFailureChangesNothing ==
    DestroyStopFailed
    => /\ last.calls[Len(last.calls)] = [call |-> "stop", arg |-> PrimaryId]
       /\ CallNames \subseteq {"stop", "unpause"}
       /\ {c.Id : c \in Named(Engine, InstanceName)} = {PrimaryId}
       /\ Named(Engine, VolName) = Named(before, VolName)
       /\ host_dirs = before.host_dirs
       /\ netns = before.netns /\ lo_up = before.lo_up
       /\ plugged = before.plugged /\ attached = before.attached
       /\ Positions("unpause") = {} => Engine = before
       /\ Positions("unpause") # {}
          => containers = {IF c \in Named(before, InstanceName)
                           THEN [c EXCEPT !.State = "running"] ELSE c :
                              c \in before.containers}

\* the stop fails in the destroy of a running instance with a companion,
\* its directory and a plugged VIF
C29_Witness ==
    /\ DestroyStopFailed
    /\ Running(before)
    /\ Named(before, VolName) # {}
    /\ VolumeDirs \cap before.host_dirs # {}
    /\ before.plugged # {}
    /\ Engine = before

(***************************************************************************)
(* C30.  Every operation that starts a container through the shared start  *)
(* routine (spawn, power_on, reboot, finish_migration,                     *)
(* finish_revert_migration) applies the same failure policy: no such       *)
(* operation ever returns, normally or with a deploy failure, leaving the  *)
(* container running after a VIF plug or network attach step failed.       *)
(***************************************************************************)
StartOps == Starts \cup {"finish_migration"}

\* a plug or a step of the attachment raised in the last call, which has
\* returned normally or with a deploy failure
StartedAndSetupFailed ==
    /\ Ended(StartOps)
    /\ NetworkSetupFailed
    /\ ReturnedNormally \/ last.exc.type = "InstanceDeployFailure"

\* C30: whichever of the five operations it was, it did not return
\* normally, the deploy failure names the instance and carries the cause,
\* the kill of the container was the last call, and the container is there
\* and exited
C30_NoStartLeavesRunningAfterSetupFailure ==
    StartedAndSetupFailed
    => /\ last.exc = Exc("InstanceDeployFailure",
                         <<"Cannot setup network: ">> \o last.caught.msg, InstanceName)
       /\ last.calls[Len(last.calls)] = [call |-> "kill", arg |-> PrimaryId]
       /\ Named(Engine, InstanceName) # {}
       /\ \A c \in Named(Engine, InstanceName) : c.State = "exited"

\* the attach of the second VIF fails in finish_migration, and the container
\* it had started is exited
C30_Witness ==
    /\ StartedAndSetupFailed
    /\ Ended({"finish_migration"})
    /\ last.caught.msg = <<"attach failed">>
    /\ Cardinality(Positions("attach")) = 2
    /\ Named(before, InstanceName) = {}
    /\ \A c \in Named(Engine, InstanceName) : c.State = "exited"

====
